---- MODULE Spec2Model ----
(***************************************************************************)
(* Verification model of techjoec/RoD-Client.                              *)
(*                                                                         *)
(*   Part I  : the streaming escape-sequence renderer                      *)
(*             (src/ansi_renderer.py, class AnsiRenderer).                 *)
(*   Part II : the Telnet network client                                   *)
(*             (src/core_network.py, class NetworkClient).                 *)
(*                                                                         *)
(* The two components share no state (spec section 2), so each has its own *)
(* specifications: SpecER, SpecCR, SpecLines, SpecBanner, SpecSeq and      *)
(* SpecStyle for the renderer's write, SpecSgr for one SGR sequence,       *)
(* SpecColour and SpecLook for the colour functions, SpecNet, SpecNeg,     *)
(* SpecNaws, SpecLife and SpecFlag for the network client, SpecText for   *)
(* the text the reader delivers, SpecStrip for _strip_iac.                 *)
(* The variables of the component a specification does not move stay at    *)
(* their initial values.                                                   *)
(***************************************************************************)
EXTENDS Integers, Sequences, FiniteSets, TLC

(***************************************************************************)
(* PART I - AnsiRenderer                                                   *)
(***************************************************************************)

\* ---- characters ---------------------------------------------------------
\* A text is a sequence of characters; a character is a one-symbol string.
ESC == "ESC"        \* "\x1b"
CR == "CR"          \* "\r"
NL == "NL"          \* "\n"
SUP2 == "SUP2"      \* U+00B2 SUPERSCRIPT TWO: str.isdigit() is True, int() raises

\* The decimal digits, in order of value.
DigitChars == <<"0", "1", "2", "3", "4", "5", "6", "7", "8", "9">>

AsciiDigits == {DigitChars[k] : k \in 1..10}

\* The characters the inputs are drawn from.  "[", ";" and "m" are ordinary
\* literal characters outside a control sequence.
Chars == {ESC, "[", ";", "m", "1", "3", SUP2, CR}

\* Bounds of the renderer model.
MaxLen == 5         \* total number of characters written
MaxWrites == 3      \* number of write() calls

\* ---- values -------------------------------------------------------------
NoneP == -1         \* a CSI parameter that is None (empty parameter)

\* A colour attribute: None, a palette index, ("xterm", n) or ("rgb", r, g, b).
NoColor == [k |-> "none", a |-> 0, b |-> 0, c |-> 0]
Named(n) == [k |-> "named", a |-> n, b |-> 0, c |-> 0]
Xterm(n) == [k |-> "xterm", a |-> n, b |-> 0, c |-> 0]
Rgb(r, g, b) == [k |-> "rgb", a |-> r, b |-> g, c |-> b]

\* AnsiRenderer.reset(): the five style attributes at their defaults.
DefaultStyle ==
  [fg |-> NoColor, bg |-> NoColor, bold |-> FALSE, underline |-> FALSE,
   inverse |-> FALSE]

\* The renderer object after __init__, together with the operations it has
\* performed on its text widget (ops) and the outcome of the last write call.
\*   ops : the sequence of widget operations, in order:
\*         [op |-> "erase"]                       delete of the current line
\*         [op |-> "insert", text |-> t, style |-> s]   one _insert call
\*   exc : "none", or the exception the last write() call raised
FreshRenderer ==
  [style |-> DefaultStyle, carriage_return |-> FALSE, pending_esc |-> <<>>,
   ops |-> <<>>, exc |-> "none"]

\* ---- str.isdigit / int --------------------------------------------------
\* str.isdigit(): true of every Unicode digit, not only of "0".."9".
IsDigit(c) == c \in AsciiDigits \cup {SUP2}

DigitVal(c) == CHOOSE d \in 0..9 : DigitChars[d + 1] = c

\* int(num) accepts only decimal digits; it raises ValueError on SUP2.
IntRaises(num) == \E i \in 1..Len(num) : num[i] \notin AsciiDigits

RECURSIVE IntOf(_)
IntOf(num) ==
  IF num = <<>> THEN 0
  ELSE 10 * IntOf(SubSeq(num, 1, Len(num) - 1)) + DigitVal(num[Len(num)])

\* `int(num) if num else None`
ParamOf(num) == IF num = <<>> THEN NoneP ELSE IntOf(num)

\* ---- _apply_sgr ---------------------------------------------------------
RECURSIVE SgrLoop(_, _, _)
SgrLoop(st, params, i) ==
  IF i > Len(params) THEN st
  ELSE
    LET p == IF params[i] # NoneP THEN params[i] ELSE 0
        n == Len(params)
    IN
    IF p = 0 THEN SgrLoop(DefaultStyle, params, i + 1)
    ELSE IF p = 1 THEN SgrLoop([st EXCEPT !.bold = TRUE], params, i + 1)
    ELSE IF p = 4 THEN SgrLoop([st EXCEPT !.underline = TRUE], params, i + 1)
    ELSE IF p = 7 THEN SgrLoop([st EXCEPT !.inverse = TRUE], params, i + 1)
    ELSE IF p = 22 THEN SgrLoop([st EXCEPT !.bold = FALSE], params, i + 1)
    ELSE IF p = 24 THEN SgrLoop([st EXCEPT !.underline = FALSE], params, i + 1)
    ELSE IF p = 27 THEN SgrLoop([st EXCEPT !.inverse = FALSE], params, i + 1)
    ELSE IF p = 39 THEN SgrLoop([st EXCEPT !.fg = NoColor], params, i + 1)
    ELSE IF p = 49 THEN SgrLoop([st EXCEPT !.bg = NoColor], params, i + 1)
    ELSE IF 30 <= p /\ p <= 37
      THEN SgrLoop([st EXCEPT !.fg = Named(p - 30)], params, i + 1)
    ELSE IF 90 <= p /\ p <= 97
      THEN SgrLoop([st EXCEPT !.fg = Named((p - 90) + 8)], params, i + 1)
    ELSE IF 40 <= p /\ p <= 47
      THEN SgrLoop([st EXCEPT !.bg = Named(p - 40)], params, i + 1)
    ELSE IF 100 <= p /\ p <= 107
      THEN SgrLoop([st EXCEPT !.bg = Named((p - 100) + 8)], params, i + 1)
    ELSE IF p = 38 \/ p = 48 THEN
      IF i + 1 <= n /\ params[i + 1] = 5 /\ i + 2 <= n THEN
        LET val == params[i + 2]
            st2 == IF val = NoneP THEN st
                   ELSE IF p = 38 THEN [st EXCEPT !.fg = Xterm(val)]
                   ELSE [st EXCEPT !.bg = Xterm(val)]
        IN SgrLoop(st2, params, i + 3)
      ELSE IF i + 1 <= n /\ params[i + 1] = 2 /\ i + 4 <= n THEN
        LET r == params[i + 2]
            g == params[i + 3]
            b == params[i + 4]
            st2 == IF r = NoneP \/ g = NoneP \/ b = NoneP THEN st
                   ELSE IF p = 38 THEN [st EXCEPT !.fg = Rgb(r, g, b)]
                   ELSE [st EXCEPT !.bg = Rgb(r, g, b)]
        IN SgrLoop(st2, params, i + 5)
      ELSE SgrLoop(st, params, i + 1)
    ELSE SgrLoop(st, params, i + 1)

\* An _apply_sgr without `if not params: params = [0]`.
ApplySgr_EmptyListIgnored(st, params) == SgrLoop(st, params, 1)

\* _apply_sgr(params): an empty parameter list is [0].
ApplySgr(st, params) ==
  SgrLoop(st, IF params = <<>> THEN <<0>> ELSE params, 1)

\* ---- color_from_ansi, xterm_color, _get_colors ---------------------------
\* A colour string such as "#aa5500" is the sequence of its characters.
HexChars ==
  <<"0", "1", "2", "3", "4", "5", "6", "7", "8", "9", "a", "b", "c", "d",
    "e", "f">>

RECURSIVE HexDigits(_)
HexDigits(v) ==
  IF v < 16 THEN <<HexChars[v + 1]>>
  ELSE Append(HexDigits(v \div 16), HexChars[(v % 16) + 1])

\* f"{v:02x}"
Hex2(v) == IF v < 16 THEN <<"0">> \o HexDigits(v) ELSE HexDigits(v)

\* f"#{r:02x}{g:02x}{b:02x}"
HexColor(r, g, b) == <<"#">> \o Hex2(r) \o Hex2(g) \o Hex2(b)

Palette ==
  <<HexColor(0, 0, 0), HexColor(170, 0, 0), HexColor(0, 170, 0),
    HexColor(170, 85, 0), HexColor(0, 0, 170), HexColor(170, 0, 170),
    HexColor(0, 170, 170), HexColor(170, 170, 170), HexColor(85, 85, 85),
    HexColor(255, 85, 85), HexColor(85, 255, 85), HexColor(255, 255, 85),
    HexColor(85, 85, 255), HexColor(255, 85, 255), HexColor(85, 255, 255),
    HexColor(255, 255, 255)>>

Max2(a, b) == IF a >= b THEN a ELSE b
Min2(a, b) == IF a <= b THEN a ELSE b

\* `max(lo, min(hi, v))`
Clamp(lo, hi, v) == Max2(lo, Min2(hi, v))

\* A comp that spreads the six steps evenly.
Comp_Even(v) == v * 51

\* comp(v) of xterm_color
Comp(v) == IF v > 0 THEN 55 + v * 40 ELSE 0

\* xterm_color(n)
XtermColor(n) ==
  IF 0 <= n /\ n <= 15 THEN Palette[Clamp(0, 15, n) + 1]
  ELSE IF 16 <= n /\ n <= 231 THEN
    LET m == n - 16 IN
    HexColor(Comp((m \div 36) % 6), Comp((m \div 6) % 6), Comp(m % 6))
  ELSE IF 232 <= n /\ n <= 255 THEN
    LET v == 8 + (n - 232) * 10 IN HexColor(v, v, v)
  ELSE HexColor(255, 255, 255)

\* A color_from_ansi that uses the values as they are stored.
ColorFromAnsi_Unclamped(code) ==
  IF code.k = "xterm" THEN XtermColor(code.a)
  ELSE IF code.k = "rgb" THEN HexColor(code.a, code.b, code.c)
  ELSE Palette[Clamp(0, 15, code.a) + 1]

\* color_from_ansi(code, bold): bold is not used.
ColorFromAnsi(code) ==
  IF code.k = "xterm" THEN XtermColor(Clamp(0, 255, code.a))
  ELSE IF code.k = "rgb"
    THEN HexColor(Clamp(0, 255, code.a), Clamp(0, 255, code.b),
                  Clamp(0, 255, code.c))
  ELSE Palette[Clamp(0, 15, code.a) + 1]

\* _get_colors(fg, bg, bold, inverse): the foreground and background colours
\* of the tag.
GetColors(st) ==
  LET fg_color == IF st.fg = NoColor THEN HexColor(221, 221, 221)
                  ELSE ColorFromAnsi(st.fg)
      bg_color == IF st.bg = NoColor THEN HexColor(17, 17, 17)
                  ELSE ColorFromAnsi(st.bg)
  IN IF st.inverse THEN <<bg_color, fg_color>> ELSE <<fg_color, bg_color>>

\* _ensure_tag: how text inserted in style st looks.
TagOf(st) ==
  [foreground |-> GetColors(st)[1], background |-> GetColors(st)[2],
   underline |-> IF st.underline THEN 1 ELSE 0]

\* ---- _insert ------------------------------------------------------------
\* An _insert that deletes the line but leaves the flag set.
Insert_FlagKept(r, text) ==
  LET pre == IF r.carriage_return THEN <<[op |-> "erase"]>> ELSE <<>>
  IN [r EXCEPT !.ops = r.ops \o pre \o
                       <<[op |-> "insert", text |-> text, style |-> r.style]>>]

\* _insert(text): if a carriage return is pending, first delete the current
\* display line and clear the flag; then insert the text with the tag of the
\* current style.
Insert(r, text) ==
  LET pre == IF r.carriage_return THEN <<[op |-> "erase"]>> ELSE <<>>
  IN [r EXCEPT !.carriage_return = FALSE,
               !.ops = r.ops \o pre \o
                       <<[op |-> "insert", text |-> text, style |-> r.style]>>]

\* A flush after which the style is back at the default.
Flush_StyleReset(r, buf) ==
  IF buf = <<>> THEN r ELSE [Insert(r, buf) EXCEPT !.style = DefaultStyle]

\* `if buf: self._insert("".join(buf))`
Flush(r, buf) == IF buf = <<>> THEN r ELSE Insert(r, buf)

\* ---- write --------------------------------------------------------------
\* The result of scanning a control sequence from position j (just after
\* ESC "[" or later): kind "mode" with the parameters and the position after
\* the mode character, kind "incomplete" when the input ends first, kind
\* "raise" when int() raises.
RECURSIVE ParseCsi(_, _, _, _)
ParseCsi(s, j, params, num) ==
  IF j > Len(s) THEN [kind |-> "incomplete", params |-> params, next |-> j,
                      mode |-> ""]
  ELSE
    LET c == s[j] IN
    IF IsDigit(c) THEN ParseCsi(s, j + 1, params, Append(num, c))
    ELSE IF c = ";" THEN
      IF IntRaises(num)
        THEN [kind |-> "raise", params |-> params, next |-> j, mode |-> ""]
        ELSE ParseCsi(s, j + 1, Append(params, ParamOf(num)), <<>>)
    ELSE
      IF num # <<>> \/ params # <<>> THEN
        IF IntRaises(num)
          THEN [kind |-> "raise", params |-> params, next |-> j, mode |-> ""]
          ELSE [kind |-> "mode", params |-> Append(params, ParamOf(num)),
                next |-> j + 1, mode |-> c]
      ELSE [kind |-> "mode", params |-> params, next |-> j + 1, mode |-> c]

\* The main loop of write: position i, the literal run buf, renderer r.
RECURSIVE WriteLoop(_, _, _, _)
WriteLoop(r, s, i, buf) ==
  IF i > Len(s) THEN Flush(r, buf)
  ELSE
    LET ch == s[i] IN
    IF ch = ESC THEN
      IF i + 1 > Len(s)
        THEN Flush([r EXCEPT !.pending_esc = SubSeq(s, i, Len(s))], buf)
      ELSE IF s[i + 1] = "[" THEN
        LET r1 == Flush(r, buf)
            csi == ParseCsi(s, i + 2, <<>>, <<>>)
        IN
        IF csi.kind = "raise" THEN [r1 EXCEPT !.exc = "ValueError"]
        ELSE IF csi.kind = "incomplete"
          THEN [r1 EXCEPT !.pending_esc = SubSeq(s, i, Len(s))]
        ELSE IF csi.mode = "m"
          THEN WriteLoop([r1 EXCEPT !.style = ApplySgr(r1.style, csi.params)],
                         s, csi.next, <<>>)
        ELSE WriteLoop(r1, s, csi.next, <<>>)
      ELSE WriteLoop(r, s, i + 1, Append(buf, ch))
    ELSE IF ch = CR THEN
      WriteLoop([Flush(r, buf) EXCEPT !.carriage_return = TRUE], s, i + 1, <<>>)
    ELSE WriteLoop(r, s, i + 1, Append(buf, ch))

\* A write that forgets a carriage return left pending by an earlier call.
WriteFn_FlagDropped(r, s) ==
  WriteLoop([r EXCEPT !.pending_esc = <<>>, !.exc = "none",
                      !.carriage_return = FALSE],
            r.pending_esc \o s, 1, <<>>)

\* write(s): prepend and clear the pending escape buffer, then scan.
WriteFn(r, s) ==
  WriteLoop([r EXCEPT !.pending_esc = <<>>, !.exc = "none"],
            r.pending_esc \o s, 1, <<>>)

\* ---- state of the renderer model ----------------------------------------
VARIABLES
  ar,        \* the AnsiRenderer object and the operations on its widget
  written,   \* the concatenation of the chunks passed to write() so far
  nwrites    \* the number of write() calls made

erVars == <<ar, written, nwrites>>

\* The functions of the program that are applied on their own (_apply_sgr
\* through one control sequence, _strip_iac) record their last application
\* here: the function, its inputs and, where it returns one, its result.
\* A method of the network client that raises records the exception here.
VARIABLE call

NoCall == [fn |-> "none"]

\* The texts of exactly k characters.
TextsOfLen(k) == [1..k -> Chars]

InitER ==
  /\ ar = FreshRenderer
  /\ written = <<>>
  /\ nwrites = 0

\* What writing the whole text in one call to a fresh renderer gives.
OneCall == WriteFn(FreshRenderer, written)

\* The inserted text of a sequence of widget operations, with a mark at
\* every position where the current line is erased.
RECURSIVE FlatText(_)
FlatText(ops) ==
  IF ops = <<>> THEN <<>>
  ELSE IF Head(ops).op = "erase" THEN <<"<erase>">> \o FlatText(Tail(ops))
  ELSE Head(ops).text \o FlatText(Tail(ops))

\* ---- the text widget ----------------------------------------------------
\* The index of the last newline of a text, 0 when it has none.
LastNl(text) ==
  IF \E k \in 1..Len(text) : text[k] = NL
    THEN CHOOSE k \in 1..Len(text) :
           text[k] = NL /\ \A j \in (k + 1)..Len(text) : text[j] # NL
    ELSE 0

\* The content of the widget after a sequence of operations: an insert
\* appends at the end, the erase deletes from the start to the end of the
\* last line (`delete("end-1c linestart", "end-1c lineend")`).
RECURSIVE Display(_)
Display(ops) ==
  IF ops = <<>> THEN <<>>
  ELSE
    LET d == Display(SubSeq(ops, 1, Len(ops) - 1))
        o == ops[Len(ops)]
    IN IF o.op = "erase" THEN SubSeq(d, 1, LastNl(d)) ELSE d \o o.text

(***************************************************************************)
(* PART II - NetworkClient                                                 *)
(***************************************************************************)

\* ---- Telnet command and option codes ------------------------------------
IAC == 255
DONT == 254
DO == 253
WONT == 252
WILL == 251
SB == 250
SE == 240
ECHO == 1
SGA == 3
TTYPE == 24
NAWS == 31
LINEMODE == 34
NEW_ENVIRON == 39
MSDP == 69
MSSP == 70
COMPRESS2 == 86
MXP == 91
GMCP == 201
NOOPT == 0          \* telnetlib's option byte of an SB / SE callback
OtherOpt == 99      \* an option code the client has no name for

\* Bounds of the network model.
MaxConnects == 2    \* successful connects (streams, reader threads)
NumApps == 2        \* application threads calling the public methods
MaxCalls == 2       \* public method calls made by the application threads
MaxLifeCalls == 3   \* connect / close calls in the life-cycle specification
MaxEvents == 1      \* inbound negotiation events

Streams == 1..MaxConnects
Readers == 1..MaxConnects          \* reader r is the thread started for stream r
Apps == 101..(100 + NumApps)
Owner == 101                       \* the application thread that connects
Threads == Readers \cup Apps

\* ---- _get_naws_size / send_naws payload ---------------------------------
DefaultCols == 120
DefaultRows == 40


\* send_naws with rows clamped from below like cols (max(20, ...) for both).
NawsPayload_RowsLikeCols(cols, rows) ==
  <<IAC, SB, NAWS, 0, Max2(20, Min2(255, cols)), 0, Max2(20, Min2(255, rows)),
    IAC, SE>>

\* The payload send_naws builds: cols clamped to 20..255, rows to 5..255.
NawsPayload(cols, rows) ==
  <<IAC, SB, NAWS, 0, Max2(20, Min2(255, cols)), 0, Max2(5, Min2(255, rows)),
    IAC, SE>>

\* A terminal-type subnegotiation without the IS byte.
TtypePayload_NoIs == <<IAC, SB, TTYPE, 65, 78, 83, 73, IAC, SE>>

\* The terminal-type subnegotiation: IAC SB TTYPE 0 "ANSI" IAC SE.
TtypePayload == <<IAC, SB, TTYPE, 0, 65, 78, 83, 73, IAC, SE>>

\* ---- _on_option: the response command ------------------------------------
\* Response with ECHO handled like SGA in the DO branch (the inner test on
\* SGA left out): DO ECHO is accepted.
Response_EchoAccepted(cmd, opt) ==
  IF cmd = DO THEN
    IF opt \in {TTYPE, NAWS, NEW_ENVIRON, MSSP, MSDP, GMCP} THEN WILL
    ELSE IF opt \in {ECHO, SGA} THEN WILL
    ELSE WONT
  ELSE IF cmd = WILL THEN
    IF opt \in {ECHO, SGA, MSSP, MSDP, GMCP} THEN DO
    ELSE DONT
  ELSE IF cmd = DONT THEN WONT
  ELSE IF cmd = WONT THEN DONT
  ELSE 0

\* The command byte of the first packet _on_option sends for (cmd, opt),
\* 0 when it sends nothing (cmd is none of DO, WILL, DONT, WONT).
Response(cmd, opt) ==
  IF cmd = DO THEN
    IF opt \in {TTYPE, NAWS, NEW_ENVIRON, MSSP, MSDP, GMCP} THEN WILL
    ELSE IF opt \in {ECHO, SGA} THEN (IF opt = SGA THEN WILL ELSE WONT)
    ELSE WONT
  ELSE IF cmd = WILL THEN
    IF opt \in {ECHO, SGA, MSSP, MSDP, GMCP} THEN DO
    ELSE IF opt = COMPRESS2 THEN DONT
    ELSE IF opt \in {MXP, LINEMODE} THEN DONT
    ELSE DONT
  ELSE IF cmd = DONT THEN WONT
  ELSE IF cmd = WONT THEN DONT
  ELSE 0

\* ---- inbound negotiation events -----------------------------------------
NamedOpts ==
  {ECHO, SGA, TTYPE, NAWS, LINEMODE, NEW_ENVIRON, MSDP, MSSP, COMPRESS2, MXP,
   GMCP}

\* Every callback telnetlib can make: the four negotiation commands with any
\* option, and SB / SE with NOOPT.
AllEvents ==
  ({DO, DONT, WILL, WONT} \X (NamedOpts \cup {OtherOpt}))
    \cup {<<SB, NOOPT>>, <<SE, NOOPT>>}

\* The events of the concurrent specification: a two-packet response, the
\* window-size activation, a one-packet response and a callback without one.
CoreEvents == {<<DO, TTYPE>>, <<DO, NAWS>>, <<WILL, ECHO>>, <<SB, NOOPT>>}

\* ---- state --------------------------------------------------------------
VARIABLES
  tn,            \* self._tn: the current stream, 0 for None
  sock,          \* per stream: "new" (not created), "open" or "closed"
  stop,          \* self._stop_event
  lock,          \* self._send_lock: the thread holding it, 0 when free
  naws_enabled,  \* self._naws_enabled
  sends,         \* the log of socket writes, in order (see SendRec)
  evlog,         \* the negotiation events delivered so far, in order
  pc,            \* per thread: its position in the code
  ltn,           \* per thread: the local `tn` of the method it is in
  telnet,        \* per reader: the `telnet` argument of _on_option
  cur,           \* per reader: index in evlog of the event being handled
  arg,           \* per thread: the (cols, rows) argument of send_naws
  notified,      \* per reader: number of on_disconnect() invocations
  closes,        \* per stream: number of tn.close() calls made on it
  nconn,         \* number of streams opened so far
  calls          \* number of public method calls started so far

netVars ==
  <<tn, sock, stop, lock, naws_enabled, sends, evlog, pc, ltn, telnet, cur,
    arg, notified, closes, nconn, calls>>

vars == <<erVars, call, netVars>>

\* One socket write: the stream, the bytes, the writing thread, the index in
\* evlog of the negotiation event it answers (0 for send_line / send_naws
\* called by the application) and whether the write succeeded.
SendRec(s, bytes, t, e, ok) ==
  [s |-> s, bytes |-> bytes, by |-> t, ev |-> e, ok |-> ok]

InitNet ==
  /\ tn = 0
  /\ sock = [s \in Streams |-> "new"]
  /\ stop = FALSE
  /\ lock = 0
  /\ naws_enabled = FALSE
  /\ sends = <<>>
  /\ evlog = <<>>
  /\ pc = [t \in Threads |-> IF t \in Readers THEN "unstarted" ELSE "idle"]
  /\ ltn = [t \in Threads |-> 0]
  /\ telnet = [r \in Readers |-> 0]
  /\ cur = [r \in Readers |-> 0]
  /\ arg = [t \in Threads |-> <<DefaultCols, DefaultRows>>]
  /\ notified = [r \in Readers |-> 0]
  /\ closes = [s \in Streams |-> 0]
  /\ nconn = 0
  /\ calls = 0

Init == InitER /\ InitNet /\ call = NoCall

\* ---- helpers ------------------------------------------------------------
\* The outcomes of a write on stream s: it succeeds or raises; on a stream
\* that is not open (tn.sock is None) it can only raise.
WriteOutcomes(s) == IF sock[s] = "open" THEN BOOLEAN ELSE {FALSE}

\* The event a send of thread t answers: the reader's current event, 0 for
\* an application thread.
EvOf(t) == IF t \in Readers THEN cur[t] ELSE 0

\* Where a thread continues when close() / send_naws() returns.  The locals
\* of a method that has returned are gone: ltn and arg go back to 0 and the
\* default.
AfterClose(t) == IF t \in Readers THEN "notify" ELSE "idle"
AfterNaws(t) == IF t \in Readers THEN "opt_unlock" ELSE "idle"

\* The arguments the application passes to send_naws, and the line it sends.
NawsArgs == {<<10, 1000>>}

\* str.encode('utf-8', errors='ignore') of a text given by its code points;
\* a lone surrogate has no encoding and is left out.
RECURSIVE Utf8Encode(_)
Utf8Encode(text) ==
  IF text = <<>> THEN <<>>
  ELSE
    LET c == Head(text) IN
    (IF c < 128 THEN <<c>>
     ELSE IF c < 2048 THEN <<192 + (c \div 64), 128 + (c % 64)>>
     ELSE IF c \in 55296..57343 THEN <<>>
     ELSE IF c < 65536
       THEN <<224 + (c \div 4096), 128 + ((c \div 64) % 64), 128 + (c % 64)>>
     ELSE <<240 + (c \div 262144), 128 + ((c \div 4096) % 64),
            128 + ((c \div 64) % 64), 128 + (c % 64)>>)
    \o Utf8Encode(Tail(text))

\* The line the application sends: "caf\u00e9".
LineText == <<99, 97, 102, 233>>

\* A send_line that ends the line with LF only.
LineBytes_NoCr == Utf8Encode(LineText \o <<10>>)

\* data = (line + '\r\n').encode('utf-8', errors='ignore')
LineBytes == Utf8Encode(LineText \o <<13, 10>>)

\* ---- the application starts a public method -----------------------------
\* connect is called by the thread that owns the client; close, send_line
\* and send_naws are called from any thread.
FirstPc(op) ==
  CASE op = "connect" -> "cn_check"
    [] op = "close" -> "cl_stop"
    [] op = "send_line" -> "sl_read"
    [] op = "send_naws" -> "sn_read"

Call(a, op, cr, limit) ==
  /\ pc[a] = "idle"
  /\ op = "connect" => a = Owner
  /\ calls < limit
  /\ calls' = calls + 1
  /\ pc' = [pc EXCEPT ![a] = FirstPc(op)]
  /\ arg' = [arg EXCEPT ![a] = IF op = "send_naws" THEN cr ELSE @]
  /\ UNCHANGED <<erVars, call, tn, sock, stop, lock, naws_enabled, sends, evlog, ltn,
                 telnet, cur, notified, closes, nconn>>

\* ---- connect ------------------------------------------------------------
\* A connect that goes on to open a stream whatever self._tn holds.
ConnectCheck_Reopens(a) ==
  /\ pc[a] = "cn_check"
  /\ pc' = [pc EXCEPT ![a] = "cn_open"]
  /\ UNCHANGED <<erVars, call, tn, sock, stop, lock, naws_enabled, sends, evlog, ltn,
                 telnet, cur, arg, notified, closes, nconn, calls>>

\* `if self._tn: raise RuntimeError("Already connected")`: the exception
\* leaves connect in the calling thread.
ConnectCheck(a) ==
  /\ pc[a] = "cn_check"
  /\ pc' = [pc EXCEPT ![a] = IF tn # 0 THEN "idle" ELSE "cn_open"]
  /\ call' = IF tn # 0 THEN [fn |-> "connect", exc |-> "RuntimeError"]
                       ELSE call
  /\ UNCHANGED <<erVars, tn, sock, stop, lock, naws_enabled, sends, evlog, ltn,
                 telnet, cur, arg, notified, closes, nconn, calls>>

\* tn = telnetlib.Telnet(); tn.open(host, port, timeout): a new open stream.
ConnectOpen(a) ==
  /\ pc[a] = "cn_open"
  /\ nconn < MaxConnects
  /\ nconn' = nconn + 1
  /\ sock' = [sock EXCEPT ![nconn + 1] = "open"]
  /\ ltn' = [ltn EXCEPT ![a] = nconn + 1]
  /\ pc' = [pc EXCEPT ![a] = "cn_set"]
  /\ UNCHANGED <<erVars, call, tn, stop, lock, naws_enabled, sends, evlog, telnet, cur,
                 arg, notified, closes, calls>>

\* A connect that has stored its stream before tn.open raises.
ConnectFail_StreamKept(a) ==
  /\ pc[a] = "cn_open"
  /\ pc' = [pc EXCEPT ![a] = "idle"]
  /\ call' = [fn |-> "connect", exc |-> "OSError"]
  /\ tn' = 1
  /\ UNCHANGED <<erVars, sock, stop, lock, naws_enabled, sends, evlog, ltn,
                 telnet, cur, arg, notified, closes, nconn, calls>>

\* tn.open raises (resolution failure, refusal, timeout are all OSError):
\* the exception leaves connect in the calling thread.
ConnectFail(a) ==
  /\ pc[a] = "cn_open"
  /\ pc' = [pc EXCEPT ![a] = "idle"]
  /\ call' = [fn |-> "connect", exc |-> "OSError"]
  /\ UNCHANGED <<erVars, tn, sock, stop, lock, naws_enabled, sends, evlog, ltn,
                 telnet, cur, arg, notified, closes, nconn, calls>>

\* self._tn = tn
ConnectSet(a) ==
  /\ pc[a] = "cn_set"
  /\ tn' = ltn[a]
  /\ pc' = [pc EXCEPT ![a] = "cn_clear"]
  /\ UNCHANGED <<erVars, call, sock, stop, lock, naws_enabled, sends, evlog, ltn, telnet,
                 cur, arg, notified, closes, nconn, calls>>

\* A connect that also resets the window-size flag.
ConnectClear_FlagReset(a) ==
  /\ pc[a] = "cn_clear"
  /\ stop' = FALSE
  /\ naws_enabled' = FALSE
  /\ pc' = [pc EXCEPT ![a] = "cn_start"]
  /\ UNCHANGED <<erVars, call, tn, sock, lock, sends, evlog, ltn, telnet,
                 cur, arg, notified, closes, nconn, calls>>

\* self._stop_event.clear()
ConnectClear(a) ==
  /\ pc[a] = "cn_clear"
  /\ stop' = FALSE
  /\ pc' = [pc EXCEPT ![a] = "cn_start"]
  /\ UNCHANGED <<erVars, call, tn, sock, lock, naws_enabled, sends, evlog, ltn, telnet,
                 cur, arg, notified, closes, nconn, calls>>

\* self._rx_thread = Thread(target=self._reader_loop); self._rx_thread.start()
ConnectStart(a) ==
  /\ pc[a] = "cn_start"
  /\ pc' = [pc EXCEPT ![a] = "idle", ![ltn[a]] = "loop"]
  /\ ltn' = [ltn EXCEPT ![a] = 0]
  /\ UNCHANGED <<erVars, call, tn, sock, stop, lock, naws_enabled, sends, evlog, telnet,
                 cur, arg, notified, closes, nconn, calls>>

\* ---- close --------------------------------------------------------------
\* self._stop_event.set()
CloseSetStop(t) ==
  /\ pc[t] = "cl_stop"
  /\ stop' = TRUE
  /\ pc' = [pc EXCEPT ![t] = "cl_read"]
  /\ UNCHANGED <<erVars, call, tn, sock, lock, naws_enabled, sends, evlog, ltn, telnet,
                 cur, arg, notified, closes, nconn, calls>>

\* tn = self._tn; `if tn is not None:`
CloseRead(t) ==
  /\ pc[t] = "cl_read"
  /\ ltn' = [ltn EXCEPT ![t] = tn]
  /\ pc' = [pc EXCEPT ![t] = IF tn = 0 THEN AfterClose(t) ELSE "cl_tn"]
  /\ UNCHANGED <<erVars, call, tn, sock, stop, lock, naws_enabled, sends, evlog, telnet,
                 cur, arg, notified, closes, nconn, calls>>

\* tn.close(), any exception swallowed
CloseTn(t) ==
  /\ pc[t] = "cl_tn"
  /\ sock' = [sock EXCEPT ![ltn[t]] = "closed"]
  /\ closes' = [closes EXCEPT ![ltn[t]] = @ + 1]
  /\ pc' = [pc EXCEPT ![t] = "cl_clear"]
  /\ UNCHANGED <<erVars, call, tn, stop, lock, naws_enabled, sends, evlog, ltn, telnet,
                 cur, arg, notified, nconn, calls>>

\* close() returning without `self._tn = None`.
CloseClear_Forgotten(t) ==
  /\ pc[t] = "cl_clear"
  /\ ltn' = [ltn EXCEPT ![t] = 0]
  /\ pc' = [pc EXCEPT ![t] = AfterClose(t)]
  /\ UNCHANGED <<erVars, call, tn, sock, stop, lock, naws_enabled, sends, evlog, telnet,
                 cur, arg, notified, closes, nconn, calls>>

\* self._tn = None
CloseClear(t) ==
  /\ pc[t] = "cl_clear"
  /\ tn' = 0
  /\ ltn' = [ltn EXCEPT ![t] = 0]
  /\ pc' = [pc EXCEPT ![t] = AfterClose(t)]
  /\ UNCHANGED <<erVars, call, sock, stop, lock, naws_enabled, sends, evlog, telnet, cur,
                 arg, notified, closes, nconn, calls>>

\* ---- send_line ----------------------------------------------------------
\* tn = self._tn; `if not tn: return`
SendLineRead(a) ==
  /\ pc[a] = "sl_read"
  /\ ltn' = [ltn EXCEPT ![a] = tn]
  /\ pc' = [pc EXCEPT ![a] = IF tn = 0 THEN "idle" ELSE "sl_lock"]
  /\ UNCHANGED <<erVars, call, tn, sock, stop, lock, naws_enabled, sends, evlog, telnet,
                 cur, arg, notified, closes, nconn, calls>>

\* send_line entering its write without waiting for the send lock.
SendLineLock_NoWait(a) ==
  /\ pc[a] = "sl_lock"
  /\ lock' = a
  /\ pc' = [pc EXCEPT ![a] = "sl_write"]
  /\ UNCHANGED <<erVars, call, tn, sock, stop, naws_enabled, sends, evlog, ltn, telnet,
                 cur, arg, notified, closes, nconn, calls>>

\* `with self._send_lock:` entered
SendLineLock(a) ==
  /\ pc[a] = "sl_lock"
  /\ lock = 0
  /\ lock' = a
  /\ pc' = [pc EXCEPT ![a] = "sl_write"]
  /\ UNCHANGED <<erVars, call, tn, sock, stop, naws_enabled, sends, evlog, ltn, telnet,
                 cur, arg, notified, closes, nconn, calls>>

\* tn.write(data), any exception swallowed
SendLineWrite(a) ==
  /\ pc[a] = "sl_write"
  /\ \E ok \in WriteOutcomes(ltn[a]) :
       sends' = Append(sends, SendRec(ltn[a], LineBytes, a, 0, ok))
  /\ pc' = [pc EXCEPT ![a] = "sl_unlock"]
  /\ UNCHANGED <<erVars, call, tn, sock, stop, lock, naws_enabled, evlog, ltn, telnet,
                 cur, arg, notified, closes, nconn, calls>>

\* `with self._send_lock:` left
SendLineUnlock(a) ==
  /\ pc[a] = "sl_unlock"
  /\ lock' = 0
  /\ ltn' = [ltn EXCEPT ![a] = 0]
  /\ pc' = [pc EXCEPT ![a] = "idle"]
  /\ UNCHANGED <<erVars, call, tn, sock, stop, naws_enabled, sends, evlog, telnet, cur,
                 arg, notified, closes, nconn, calls>>

\* ---- send_naws ----------------------------------------------------------
\* tn = self._tn; `if not tn or tn.sock is None: return`
SendNawsRead(t) ==
  /\ pc[t] = "sn_read"
  /\ IF tn = 0 \/ sock[tn] # "open"
       THEN /\ pc' = [pc EXCEPT ![t] = AfterNaws(t)]
            /\ ltn' = [ltn EXCEPT ![t] = 0]
            /\ arg' = [arg EXCEPT ![t] = <<DefaultCols, DefaultRows>>]
       ELSE /\ pc' = [pc EXCEPT ![t] = "sn_lock"]
            /\ ltn' = [ltn EXCEPT ![t] = tn]
            /\ arg' = arg
  /\ UNCHANGED <<erVars, call, tn, sock, stop, lock, naws_enabled, sends, evlog, telnet,
                 cur, notified, closes, nconn, calls>>

\* `with self._send_lock:` entered.  threading.Lock is not reentrant: the
\* thread waits here until the lock is free, whoever holds it.
SendNawsLock(t) ==
  /\ pc[t] = "sn_lock"
  /\ lock = 0
  /\ lock' = t
  /\ pc' = [pc EXCEPT ![t] = "sn_write"]
  /\ UNCHANGED <<erVars, call, tn, sock, stop, naws_enabled, sends, evlog, ltn, telnet,
                 cur, arg, notified, closes, nconn, calls>>

\* tn.sock.sendall(payload), any exception swallowed
SendNawsWrite(t) ==
  /\ pc[t] = "sn_write"
  /\ \E ok \in WriteOutcomes(ltn[t]) :
       sends' = Append(sends, SendRec(ltn[t], NawsPayload(arg[t][1], arg[t][2]),
                                      t, EvOf(t), ok))
  /\ pc' = [pc EXCEPT ![t] = "sn_unlock"]
  /\ UNCHANGED <<erVars, call, tn, sock, stop, lock, naws_enabled, evlog, ltn, telnet,
                 cur, arg, notified, closes, nconn, calls>>

\* `with self._send_lock:` left
SendNawsUnlock(t) ==
  /\ pc[t] = "sn_unlock"
  /\ lock' = 0
  /\ ltn' = [ltn EXCEPT ![t] = 0]
  /\ arg' = [arg EXCEPT ![t] = <<DefaultCols, DefaultRows>>]
  /\ pc' = [pc EXCEPT ![t] = AfterNaws(t)]
  /\ UNCHANGED <<erVars, call, tn, sock, stop, naws_enabled, sends, evlog, telnet, cur,
                 notified, closes, nconn, calls>>

\* ---- _on_option ---------------------------------------------------------
CurCmd(r) == evlog[cur[r]][1]
CurOpt(r) == evlog[cur[r]][2]

\* `with self._send_lock:` entered; cmd_val / opt_val normalised.  A callback
\* that is none of DO, WILL, DONT, WONT sends nothing.
OptionLock(r) ==
  /\ pc[r] = "opt_lock"
  /\ lock = 0
  /\ lock' = r
  /\ pc' = [pc EXCEPT ![r] = IF Response(CurCmd(r), CurOpt(r)) = 0
                                THEN "opt_unlock" ELSE "opt_w1"]
  /\ UNCHANGED <<erVars, call, tn, sock, stop, naws_enabled, sends, evlog, ltn, telnet,
                 cur, arg, notified, closes, nconn, calls>>

\* An _on_option whose failed write propagates into the reader loop, which
\* breaks and closes.
OptionRespond_FailureBreaks(r) ==
  /\ pc[r] = "opt_w1"
  /\ \E ok \in WriteOutcomes(telnet[r]) :
       /\ sends' = Append(sends,
            SendRec(telnet[r],
                    <<IAC, Response(CurCmd(r), CurOpt(r)), CurOpt(r)>>,
                    r, cur[r], ok))
       /\ pc' = [pc EXCEPT ![r] =
            IF ~ok THEN "cl_stop"
            ELSE IF CurCmd(r) = DO /\ CurOpt(r) = NAWS THEN "opt_naws"
            ELSE IF CurCmd(r) = DO /\ CurOpt(r) = TTYPE THEN "opt_w2"
            ELSE "opt_unlock"]
  /\ UNCHANGED <<erVars, call, tn, sock, stop, lock, naws_enabled, evlog, ltn,
                 telnet, cur, arg, notified, closes, nconn, calls>>

\* telnet.sock.sendall(bytes([IAC, <response>, opt_val])).  A failure leaves
\* the try block: nothing more is done for this event.
OptionRespond(r) ==
  /\ pc[r] = "opt_w1"
  /\ \E ok \in WriteOutcomes(telnet[r]) :
       /\ sends' = Append(sends,
            SendRec(telnet[r],
                    <<IAC, Response(CurCmd(r), CurOpt(r)), CurOpt(r)>>,
                    r, cur[r], ok))
       /\ pc' = [pc EXCEPT ![r] =
            IF ~ok THEN "opt_unlock"
            ELSE IF CurCmd(r) = DO /\ CurOpt(r) = NAWS THEN "opt_naws"
            ELSE IF CurCmd(r) = DO /\ CurOpt(r) = TTYPE THEN "opt_w2"
            ELSE "opt_unlock"]
  /\ UNCHANGED <<erVars, call, tn, sock, stop, lock, naws_enabled, evlog, ltn, telnet,
                 cur, arg, notified, closes, nconn, calls>>

\* self._naws_enabled = True; cols, rows = self._get_naws_size();
\* self.send_naws(cols, rows) is entered
OptionNaws(r) ==
  /\ pc[r] = "opt_naws"
  /\ naws_enabled' = TRUE
  /\ arg' = [arg EXCEPT ![r] = <<DefaultCols, DefaultRows>>]
  /\ pc' = [pc EXCEPT ![r] = "sn_read"]
  /\ UNCHANGED <<erVars, call, tn, sock, stop, lock, sends, evlog, ltn, telnet, cur,
                 notified, closes, nconn, calls>>

\* telnet.sock.sendall(sb_packet): the terminal type
OptionTtype(r) ==
  /\ pc[r] = "opt_w2"
  /\ \E ok \in WriteOutcomes(telnet[r]) :
       sends' = Append(sends, SendRec(telnet[r], TtypePayload, r, cur[r], ok))
  /\ pc' = [pc EXCEPT ![r] = "opt_unlock"]
  /\ UNCHANGED <<erVars, call, tn, sock, stop, lock, naws_enabled, evlog, ltn, telnet,
                 cur, arg, notified, closes, nconn, calls>>

\* `with self._send_lock:` left; _on_option returns into read_eager
OptionUnlock(r) ==
  /\ pc[r] = "opt_unlock"
  /\ lock' = 0
  /\ telnet' = [telnet EXCEPT ![r] = 0]
  /\ cur' = [cur EXCEPT ![r] = 0]
  /\ pc' = [pc EXCEPT ![r] = "loop"]
  /\ UNCHANGED <<erVars, call, tn, sock, stop, naws_enabled, sends, evlog, ltn, arg,
                 notified, closes, nconn, calls>>

\* ---- _reader_loop -------------------------------------------------------
\* `while not self._stop_event.is_set():`  When the stop signal is seen the
\* loop is left and the finally block calls self.close().
ReaderLoop(r) ==
  /\ pc[r] = "loop"
  /\ pc' = [pc EXCEPT ![r] = IF stop THEN "cl_stop" ELSE "chk"]
  /\ UNCHANGED <<erVars, call, tn, sock, stop, lock, naws_enabled, sends, evlog, ltn,
                 telnet, cur, arg, notified, closes, nconn, calls>>

\* `if not self._tn: break`
ReaderCheckTn(r) ==
  /\ pc[r] = "chk"
  /\ pc' = [pc EXCEPT ![r] = IF tn = 0 THEN "cl_stop" ELSE "read"]
  /\ UNCHANGED <<erVars, call, tn, sock, stop, lock, naws_enabled, sends, evlog, ltn,
                 telnet, cur, arg, notified, closes, nconn, calls>>

\* raw = self._tn.read_eager() raises: AttributeError when self._tn has become
\* None, EOFError on a closed stream or at end-of-stream, OSError or another
\* exception on an open one.  Every except clause breaks out of the loop.
ReaderReadRaises(r) ==
  /\ pc[r] = "read"
  /\ pc' = [pc EXCEPT ![r] = "cl_stop"]
  /\ UNCHANGED <<erVars, call, tn, sock, stop, lock, naws_enabled, sends, evlog, ltn,
                 telnet, cur, arg, notified, closes, nconn, calls>>

\* read_eager returns b"": time.sleep(0.05); continue
ReaderReadEmpty(r) ==
  /\ pc[r] = "read"
  /\ tn # 0 /\ sock[tn] = "open"
  /\ pc' = [pc EXCEPT ![r] = "loop"]
  /\ UNCHANGED <<erVars, call, tn, sock, stop, lock, naws_enabled, sends, evlog, ltn,
                 telnet, cur, arg, notified, closes, nconn, calls>>

\* read_eager returns data: it is decoded and passed to on_text, whose
\* exceptions are swallowed
ReaderReadData(r) ==
  /\ pc[r] = "read"
  /\ tn # 0 /\ sock[tn] = "open"
  /\ pc' = [pc EXCEPT ![r] = "loop"]
  /\ UNCHANGED <<erVars, call, tn, sock, stop, lock, naws_enabled, sends, evlog, ltn,
                 telnet, cur, arg, notified, closes, nconn, calls>>

\* read_eager meets a negotiation command and calls the option callback
\* _on_option(telnet, cmd, opt) on the reader thread, telnet being the stream
\* that is read.
ReaderReadEvent(r, e) ==
  /\ pc[r] = "read"
  /\ tn # 0 /\ sock[tn] = "open"
  /\ Len(evlog) < MaxEvents
  /\ evlog' = Append(evlog, e)
  /\ cur' = [cur EXCEPT ![r] = Len(evlog) + 1]
  /\ telnet' = [telnet EXCEPT ![r] = tn]
  /\ pc' = [pc EXCEPT ![r] = "opt_lock"]
  /\ UNCHANGED <<erVars, call, tn, sock, stop, lock, naws_enabled, sends, ltn, arg,
                 notified, closes, nconn, calls>>

\* finally: after self.close(), `try: self.on_disconnect() except Exception`;
\* the thread ends
ReaderNotify(r) ==
  /\ pc[r] = "notify"
  /\ notified' = [notified EXCEPT ![r] = @ + 1]
  /\ pc' = [pc EXCEPT ![r] = "done"]
  /\ UNCHANGED <<erVars, call, tn, sock, stop, lock, naws_enabled, sends, evlog, ltn,
                 telnet, cur, arg, closes, nconn, calls>>

\* ---- steps of the threads ------------------------------------------------
CloseStep(t) ==
  \/ CloseSetStop(t)
  \/ CloseRead(t)
  \/ CloseTn(t)
  \/ CloseClear(t)

SendNawsStep(t) ==
  \/ SendNawsRead(t)
  \/ SendNawsLock(t)
  \/ SendNawsWrite(t)
  \/ SendNawsUnlock(t)

OptionStep(r) ==
  \/ OptionLock(r)
  \/ OptionRespond(r)
  \/ OptionNaws(r)
  \/ OptionTtype(r)
  \/ OptionUnlock(r)

\* A step of reader r outside the option callback.
ReaderPollStep(r) ==
  \/ ReaderLoop(r)
  \/ ReaderCheckTn(r)
  \/ ReaderReadRaises(r)
  \/ ReaderReadEmpty(r)
  \/ ReaderReadData(r)
  \/ CloseStep(r)
  \/ ReaderNotify(r)

\* A step of reader r, its negotiation events drawn from Events.
ReaderStep(r, Events) ==
  \/ ReaderPollStep(r)
  \/ \E e \in Events : ReaderReadEvent(r, e)
  \/ OptionStep(r)
  \/ SendNawsStep(r)

ConnectStep(a) ==
  \/ ConnectCheck(a)
  \/ ConnectOpen(a)
  \/ ConnectFail(a)
  \/ ConnectSet(a)
  \/ ConnectClear(a)
  \/ ConnectStart(a)

SendLineStep(a) ==
  \/ SendLineRead(a)
  \/ SendLineLock(a)
  \/ SendLineWrite(a)
  \/ SendLineUnlock(a)

\* A step of application thread a inside the method it has called.
AppStep(a) ==
  \/ ConnectStep(a)
  \/ CloseStep(a)
  \/ SendLineStep(a)
  \/ SendNawsStep(a)

PublicOps == {"connect", "close", "send_line", "send_naws"}

NextNet ==
  \/ \E a \in Apps : \E op \in PublicOps : \E cr \in NawsArgs :
       Call(a, op, cr, MaxCalls)
  \/ \E a \in Apps : AppStep(a)
  \/ \E r \in Readers : ReaderStep(r, CoreEvents)

\* The concurrent specification of the network client.
SpecNet == Init /\ [][NextNet]_vars

\* The same with the scheduling the threads have: a thread that can take a
\* step of the method it is in eventually takes one.  Nothing obliges the
\* application to call a method or the peer to send anything.
FairSpecNet ==
  /\ SpecNet
  /\ \A a \in Apps : WF_vars(AppStep(a))
  /\ \A r \in Readers : WF_vars(ReaderStep(r, CoreEvents))

\* The negotiation on its own: the application connects, as the first thing
\* it does, and the reader handles events drawn from all the callbacks
\* telnetlib can make.  The reader's call of send_naws never gets past
\* `with self._send_lock` here (the lock is held by its caller and no other
\* thread releases it), so the later steps of send_naws are left out.
ConnectFirst ==
  /\ calls = 0
  /\ Call(Owner, "connect", <<DefaultCols, DefaultRows>>, MaxCalls)

ReaderNegStep(r) ==
  \/ ReaderPollStep(r)
  \/ \E e \in AllEvents : ReaderReadEvent(r, e)
  \/ OptionStep(r)
  \/ SendNawsRead(r)

NextNeg ==
  \/ ConnectFirst
  \/ ConnectStep(Owner)
  \/ \E r \in Readers : ReaderNegStep(r)

SpecNeg == Init /\ [][NextNeg]_vars

\* The life cycle on its own: the application threads connect and close,
\* the peer sends text or nothing, and no negotiation takes place.
NextLife ==
  \/ \E a \in Apps : \E op \in {"connect", "close"} :
       Call(a, op, <<DefaultCols, DefaultRows>>, MaxLifeCalls)
  \/ ConnectStep(Owner)
  \/ \E a \in Apps : CloseStep(a)
  \/ \E r \in Readers : ReaderPollStep(r)

SpecLife == Init /\ [][NextLife]_vars

FairSpecLife ==
  /\ SpecLife
  /\ WF_vars(ConnectStep(Owner))
  /\ \A a \in Apps : WF_vars(CloseStep(a))
  /\ \A r \in Readers : WF_vars(ReaderPollStep(r))

\* The window-size update on its own: the application connects, as the first
\* thing it does, and its threads call send_naws with sizes below, inside,
\* on and above the limits of the clamp, while the reader polls.
NawsArgsAll ==
  {<<10, 1000>>, <<300, 3>>, <<20, 5>>, <<255, 255>>, <<19, 4>>, <<256, 256>>,
   <<120, 40>>, <<0, 0>>, <<-1, -7>>}

NextNaws ==
  \/ ConnectFirst
  \/ \E a \in Apps : \E cr \in NawsArgsAll :
       Call(a, "send_naws", cr, MaxCalls)
  \/ ConnectStep(Owner)
  \/ \E a \in Apps : SendNawsStep(a)
  \/ \E r \in Readers : ReaderPollStep(r)

SpecNaws == Init /\ [][NextNaws]_vars

\* The window-size flag over the life of a client: the owner connects,
\* closes and connects again, and the peer offers and withdraws the window
\* size.  Every tn.open succeeds.  As in SpecNeg the reader's call of
\* send_naws either returns at its first test or waits for the lock its
\* caller holds.
FlagEvents == {<<DO, NAWS>>, <<DONT, NAWS>>}

\* ReaderReadEvent with this specification's bound on the events: no more
\* commands arrive than streams have been opened.
ReaderReadFlagEvent(r, e) ==
  /\ pc[r] = "read"
  /\ tn # 0 /\ sock[tn] = "open"
  /\ Len(evlog) < nconn
  /\ evlog' = Append(evlog, e)
  /\ cur' = [cur EXCEPT ![r] = Len(evlog) + 1]
  /\ telnet' = [telnet EXCEPT ![r] = tn]
  /\ pc' = [pc EXCEPT ![r] = "opt_lock"]
  /\ UNCHANGED <<erVars, call, tn, sock, stop, lock, naws_enabled, sends, ltn, arg,
                 notified, closes, nconn, calls>>

NextFlag ==
  \/ \E op \in {"connect", "close"} :
       Call(Owner, op, <<DefaultCols, DefaultRows>>, MaxLifeCalls)
  \/ ConnectCheck(Owner)
  \/ ConnectOpen(Owner)
  \/ ConnectSet(Owner)
  \/ ConnectClear(Owner)
  \/ ConnectStart(Owner)
  \/ CloseStep(Owner)
  \/ \E r \in Readers : ReaderPollStep(r)
  \/ \E r \in Readers : \E e \in FlagEvents : ReaderReadFlagEvent(r, e)
  \/ \E r \in Readers : OptionLock(r)
  \/ \E r \in Readers : OptionRespond(r)
  \/ \E r \in Readers : OptionNaws(r)
  \/ \E r \in Readers : OptionUnlock(r)
  \/ \E r \in Readers : SendNawsRead(r)

SpecFlag == Init /\ [][NextFlag]_vars

\* ---- the text path of _reader_loop ---------------------------------------
\* bytes.decode('utf-8', errors='ignore'): the code points of the well-formed
\* sequences of bs from position i on; every byte that starts none is
\* dropped.  (With errors='ignore' decode never raises, so the latin-1
\* fallback is not reached.)
IsCont(b) == b \in 128..191

SecondOk(lead, b) ==
  IF lead = 224 THEN b \in 160..191
  ELSE IF lead = 237 THEN b \in 128..159
  ELSE IF lead = 240 THEN b \in 144..191
  ELSE IF lead = 244 THEN b \in 128..143
  ELSE IsCont(b)

RECURSIVE Utf8Ignore(_, _)
Utf8Ignore(bs, i) ==
  IF i > Len(bs) THEN <<>>
  ELSE
    LET b == bs[i] IN
    IF b < 128 THEN <<b>> \o Utf8Ignore(bs, i + 1)
    ELSE IF b \in 194..223 /\ i + 1 <= Len(bs) /\ IsCont(bs[i + 1]) THEN
      <<(b - 192) * 64 + (bs[i + 1] - 128)>> \o Utf8Ignore(bs, i + 2)
    ELSE IF /\ b \in 224..239 /\ i + 2 <= Len(bs)
            /\ SecondOk(b, bs[i + 1]) /\ IsCont(bs[i + 2]) THEN
      <<(b - 224) * 4096 + (bs[i + 1] - 128) * 64 + (bs[i + 2] - 128)>>
        \o Utf8Ignore(bs, i + 3)
    ELSE IF /\ b \in 240..244 /\ i + 3 <= Len(bs)
            /\ SecondOk(b, bs[i + 1]) /\ IsCont(bs[i + 2])
            /\ IsCont(bs[i + 3]) THEN
      <<(b - 240) * 262144 + (bs[i + 1] - 128) * 4096
          + (bs[i + 2] - 128) * 64 + (bs[i + 3] - 128)>>
        \o Utf8Ignore(bs, i + 4)
    ELSE Utf8Ignore(bs, i + 1)

\* The payload bytes the peer sends: "A", the two bytes of U+00E9, and the
\* lead and first continuation byte of a three-byte character.
MaxPayload == 4     \* total number of payload bytes received

PayloadBytes == {65, 195, 169, 226, 130}

\* What the reader has received and what it has passed to on_text so far.
NoText == [fn |-> "_reader_loop", received |-> <<>>, delivered |-> <<>>]

TextSoFar == IF call.fn = "_reader_loop" THEN call ELSE NoText

\* ReaderReadData with its data: read_eager returns the non-empty chunk,
\* which is decoded on its own and passed to on_text.
ReaderReadBytes(r, chunk) ==
  /\ pc[r] = "read"
  /\ tn # 0 /\ sock[tn] = "open"
  /\ Len(TextSoFar.received) + Len(chunk) <= MaxPayload
  /\ call' = [fn |-> "_reader_loop",
              received |-> TextSoFar.received \o chunk,
              delivered |-> TextSoFar.delivered \o Utf8Ignore(chunk, 1)]
  /\ pc' = [pc EXCEPT ![r] = "loop"]
  /\ UNCHANGED <<erVars, tn, sock, stop, lock, naws_enabled, sends, evlog,
                 ltn, telnet, cur, arg, notified, closes, nconn, calls>>

\* The text path on its own: the application connects and the reader
\* receives payload in chunks of any size.
NextText ==
  \/ ConnectFirst
  \/ ConnectStep(Owner)
  \/ \E r \in Readers :
       \/ ReaderLoop(r)
       \/ ReaderCheckTn(r)
       \/ \E k \in 1..MaxPayload :
            \E chunk \in [1..k -> PayloadBytes] : ReaderReadBytes(r, chunk)

SpecText == Init /\ [][NextText]_vars

\* ---- _strip_iac ----------------------------------------------------------
\* Positions are 1-based here: position i stands for Python's index i - 1.
\* The inner loop of the SB branch, `while i < n - 1:` looking for IAC SE:
\* the position at which it leaves i.
RECURSIVE SkipSb(_, _)
SkipSb(buf, i) ==
  IF i < Len(buf)
    THEN IF buf[i] = IAC /\ buf[i + 1] = SE THEN i + 2
         ELSE SkipSb(buf, i + 1)
    ELSE i

\* The outer loop `while i < n:` with the output collected so far.
RECURSIVE StripLoop(_, _, _)
StripLoop(buf, i, out) ==
  IF i > Len(buf) THEN out
  ELSE IF buf[i] = IAC THEN
    IF i + 1 > Len(buf) THEN out
    ELSE
      LET cmd == buf[i + 1] IN
      IF cmd \in {DO, DONT, WILL, WONT} THEN StripLoop(buf, i + 3, out)
      ELSE IF cmd = SB THEN StripLoop(buf, SkipSb(buf, i + 2), out)
      ELSE StripLoop(buf, i + 2, out)
  ELSE StripLoop(buf, i + 1, Append(out, buf[i]))

\* The number of iterations the outer loop makes from position i on.
RECURSIVE StripIters(_, _)
StripIters(buf, i) ==
  IF i > Len(buf) THEN 0
  ELSE IF buf[i] = IAC THEN
    IF i + 1 > Len(buf) THEN 1
    ELSE
      LET cmd == buf[i + 1] IN
      IF cmd \in {DO, DONT, WILL, WONT} THEN 1 + StripIters(buf, i + 3)
      ELSE IF cmd = SB THEN 1 + StripIters(buf, SkipSb(buf, i + 2))
      ELSE 1 + StripIters(buf, i + 2)
  ELSE 1 + StripIters(buf, i + 1)

\* A _strip_iac that passes the first byte of the buffer through unexamined.
StripIac_FirstKept(buf) ==
  IF buf = <<>> THEN <<>> ELSE StripLoop(buf, 2, <<buf[1]>>)

\* _strip_iac(buf)
StripIac(buf) == StripLoop(buf, 1, <<>>)

\* The buffers _strip_iac is applied to: every buffer of at most MaxBuf bytes
\* drawn from IAC, a negotiation command, SB, SE, an option byte and the
\* letter "A", and the buffer of the unit test,
\* IAC DO 1 "ABC" IAC SB 24 1 IAC SE "XYZ".
MaxBuf == 5

StripBytes == {IAC, DO, SB, SE, ECHO, 65}

TestBuf == <<IAC, DO, 1, 65, 66, 67, IAC, SB, 24, 1, IAC, SE, 88, 89, 90>>

Buffers == UNION {[1..k -> StripBytes] : k \in 0..MaxBuf} \cup {TestBuf}

\* One application of _strip_iac (the reader applies it to what read_eager
\* returned when CORE_NET_RAW_PASS is set); the function keeps no state, so
\* a behaviour applies it to one buffer.
StripCall ==
  /\ call = NoCall
  /\ \E buf \in Buffers :
       call' = [fn |-> "_strip_iac", buf |-> buf, out |-> StripIac(buf)]
  /\ UNCHANGED <<erVars, netVars>>

NextStrip == StripCall

SpecStrip == Init /\ [][NextStrip]_vars

\* ---- the renderer's action ----------------------------------------------
\* A write that drops the pending escape buffer instead of prepending it.
Write_PendingDropped(chunk) ==
  /\ nwrites < MaxWrites
  /\ Len(written) + Len(chunk) <= MaxLen
  /\ ar' = WriteFn([ar EXCEPT !.pending_esc = <<>>], chunk)
  /\ written' = written \o chunk
  /\ nwrites' = nwrites + 1
  /\ UNCHANGED <<call, netVars>>

\* One call ar.write(chunk).  A call that raises leaves the object as the
\* exception found it; the object stays usable and later calls are possible.
Write(chunk) ==
  /\ nwrites < MaxWrites
  /\ Len(written) + Len(chunk) <= MaxLen
  /\ ar' = WriteFn(ar, chunk)
  /\ written' = written \o chunk
  /\ nwrites' = nwrites + 1
  /\ UNCHANGED <<call, netVars>>

NextER ==
  /\ nwrites < MaxWrites
  /\ \E k \in 1..(MaxLen - Len(written)) :
       \E chunk \in TextsOfLen(k) : Write(chunk)

\* The specification of the renderer.
SpecER == Init /\ [][NextER]_vars

\* The renderer fed with texts of literal characters, carriage returns and
\* control sequences that int() accepts (ESC "[" "m" is a reset, ESC "[" "a"
\* a sequence of another mode).
CrChars == {"a", CR, ESC, "[", "m"}

NextCR ==
  /\ nwrites < MaxWrites
  /\ \E k \in 1..(MaxLen - Len(written)) :
       \E chunk \in [1..k -> CrChars] : Write(chunk)

SpecCR == Init /\ [][NextCR]_vars

\* The renderer fed with short texts over every kind of character write
\* tells apart: ESC, "[", a digit int() accepts and one it rejects, ";",
\* the mode character "m", carriage return and a letter (a literal
\* character, and the mode character of a sequence write ignores).
SeqChars == {ESC, "[", "1", SUP2, ";", "m", CR, "a"}

MaxSeq == 4

NextSeq ==
  /\ nwrites < MaxWrites
  /\ \E k \in 1..(MaxSeq - Len(written)) :
       \E chunk \in [1..k -> SeqChars] : Write(chunk)

SpecSeq == Init /\ [][NextSeq]_vars

\* The renderer fed with texts in which a style can be set and then met by
\* each kind of input: ESC "[" "1" "m" sets bold; "a" is a literal
\* character and the mode character of a sequence write ignores.
StyleChars == {ESC, "[", "1", "m", CR, "a"}

NextStyle ==
  /\ nwrites < MaxWrites
  /\ \E k \in 1..(MaxLen - Len(written)) :
       \E chunk \in [1..k -> StyleChars] : Write(chunk)

SpecStyle == Init /\ [][NextStyle]_vars

\* The renderer fed with lines of plain text: two letters, newline and
\* carriage return.
LineChars == {"a", "b", NL, CR}

NextLines ==
  /\ nwrites < MaxWrites
  /\ \E k \in 1..(MaxLen - Len(written)) :
       \E chunk \in [1..k -> LineChars] : Write(chunk)

SpecLines == Init /\ [][NextLines]_vars

\* The banner of the mock server as decoded text:
\* "\x1b[32mWelcome\x1b[0m to MockMUD!\r\n>".
Banner ==
  <<ESC, "[", "3", "2", "m", "W", "e", "l", "c", "o", "m", "e",
    ESC, "[", "0", "m", " ", "t", "o", " ", "M", "o", "c", "k", "M", "U", "D",
    "!", CR, NL, ">">>

\* One call ar.write(chunk) with the next k characters of the banner, as the
\* UI makes it for each text the network client delivers.
WriteBanner(k) ==
  /\ nwrites < MaxWrites
  /\ ar' = WriteFn(ar, SubSeq(Banner, Len(written) + 1, Len(written) + k))
  /\ written' = SubSeq(Banner, 1, Len(written) + k)
  /\ nwrites' = nwrites + 1
  /\ UNCHANGED <<call, netVars>>

NextBanner == \E k \in 1..(Len(Banner) - Len(written)) : WriteBanner(k)

SpecBanner == Init /\ [][NextBanner]_vars

\* ---- one SGR sequence ---------------------------------------------------
\* The decimal digits of a natural number, as characters.
RECURSIVE DecDigits(_)
DecDigits(n) ==
  IF n < 10 THEN <<DigitChars[n + 1]>>
  ELSE Append(DecDigits(n \div 10), DigitChars[(n % 10) + 1])

\* The parameter fields of a sequence joined with ";": a field is a number
\* or is empty (NoneP).
RECURSIVE JoinFields(_)
JoinFields(fs) ==
  IF fs = <<>> THEN <<>>
  ELSE
    LET f == IF Head(fs) = NoneP THEN <<>> ELSE DecDigits(Head(fs)) IN
    IF Len(fs) = 1 THEN f ELSE f \o <<";">> \o JoinFields(Tail(fs))

\* The control sequence ESC "[" fields "m".
CsiText(fs) == <<ESC, "[">> \o JoinFields(fs) \o <<"m">>

\* The number of parameters of a sequence of basic parameters.
MaxParams == 2

\* The values of basic parameters: every value the code names, the ends of
\* its ranges, the empty parameter, and values next to them that it does
\* not name.
SgrValues ==
  {NoneP, 0, 1, 4, 7, 22, 24, 27, 39, 49, 30, 33, 37, 40, 44, 47, 90, 97,
   100, 107, 2, 3, 5, 8, 21, 29, 50, 89, 98, 99, 108, 255}

BasicLists == UNION {[1..k -> SgrValues] : k \in 0..MaxParams}

\* Styles a renderer can be in when a sequence arrives: the default, one
\* with every attribute set, and two with palette and true colours.
FullStyle ==
  [fg |-> Named(3), bg |-> Named(12), bold |-> TRUE, underline |-> TRUE,
   inverse |-> TRUE]

SgrStyles ==
  {DefaultStyle, FullStyle,
   [DefaultStyle EXCEPT !.fg = Xterm(200), !.underline = TRUE],
   [DefaultStyle EXCEPT !.bg = Rgb(1, 2, 3), !.bold = TRUE]}

\* Extended colour selections: the selector, the kind and its arguments.
XtermArgs == {0, 1, 7, 15, 16, 196, 231, 232, 255, 256, 300}

Channels == {0, 1, 7, 255, 300}

ExtGroups ==
  {<<s, 5, n>> : s \in {38, 48}, n \in XtermArgs}
    \cup {<<s[1], 2, s[2], s[3], s[4]>> :
            s \in {38, 48} \X Channels \X Channels \X Channels}

\* A selection with parameters before and after it in the same sequence.
ExtLists ==
  {pre \o g \o post :
     pre \in {<<>>, <<1>>}, g \in ExtGroups,
     post \in {<<>>, <<4>>, <<27>>, <<48, 5, 2>>}}

\* Selections of an unrecognized shape, at the end of a sequence: the
\* selector alone, a kind other than 5 or 2, kind 5 without an argument,
\* kind 2 with one or two arguments, and empty arguments.
PartArgs == {1, 4, 255}

BadExtLists ==
  UNION {
    {<<s>>, <<s, 5>>, <<s, 2>>, <<s, 7>>, <<s, 3>>, <<s, 5, NoneP>>}
      \cup {<<s, 2, a>> : a \in PartArgs}
      \cup {<<s, 2, q[1], q[2]>> : q \in PartArgs \X PartArgs}
      \cup {<<s, 2, NoneP, q[1], q[2]>> : q \in PartArgs \X PartArgs}
      \cup {<<s, 2, q[1], q[2], NoneP>> : q \in PartArgs \X PartArgs}
    : s \in {38, 48}}

SgrLists == BasicLists \cup ExtLists \cup BadExtLists

\* One SGR sequence written to a renderer in style st: write parses the
\* fields and calls _apply_sgr with them.
SgrWrite ==
  /\ call = NoCall
  /\ \E st \in SgrStyles : \E fs \in SgrLists :
       LET r == WriteFn([FreshRenderer EXCEPT !.style = st], CsiText(fs)) IN
       call' = [fn |-> "_apply_sgr", style |-> st, params |-> fs,
                out |-> r.style, exc |-> r.exc, ops |-> r.ops]
  /\ UNCHANGED <<erVars, netVars>>

NextSgr == SgrWrite

SpecSgr == Init /\ [][NextSgr]_vars

\* ---- color_from_ansi on its own ------------------------------------------
\* The colour codes color_from_ansi is applied to: every palette index from
\* below 0 to above 15, every xterm index from below 0 to above 255, and
\* true colours with channels inside and outside 0..255.
RgbChannels == {-1, 0, 10, 20, 30, 128, 255, 300}

ColourCodes ==
  {Named(n) : n \in -5..20} \cup {Named(99)}
    \cup {Xterm(n) : n \in -2..260}
    \cup {Rgb(q[1], q[2], q[3]) :
            q \in RgbChannels \X RgbChannels \X RgbChannels}

ColourCall ==
  /\ call = NoCall
  /\ \E code \in ColourCodes :
       call' = [fn |-> "color_from_ansi", code |-> code,
                out |-> ColorFromAnsi(code)]
  /\ UNCHANGED <<erVars, netVars>>

NextColour == ColourCall

SpecColour == Init /\ [][NextColour]_vars

\* ---- _get_colors on its own ----------------------------------------------
\* The colours a style attribute can hold: none, each palette index, indexed
\* and true colours.
StyleColours ==
  {NoColor} \cup {Named(n) : n \in 0..15}
    \cup {Xterm(1), Xterm(200), Rgb(1, 2, 3)}

LookStyles ==
  [fg : StyleColours, bg : StyleColours, bold : BOOLEAN,
   underline : BOOLEAN, inverse : BOOLEAN]

\* _ensure_tag resolving the colours of a style for a new tag.
GetColorsCall ==
  /\ call = NoCall
  /\ \E st \in LookStyles :
       call' = [fn |-> "_get_colors", style |-> st, out |-> GetColors(st)]
  /\ UNCHANGED <<erVars, netVars>>

NextLook == GetColorsCall

SpecLook == Init /\ [][NextLook]_vars

(***************************************************************************)
(* PART III - the claims                                                   *)
(***************************************************************************)

\* ---- C1 -----------------------------------------------------------------
\* C1: chunk-invariance of write.  However the text written so far was split
\* into write calls, the inserted text with the positions of its line
\* erases, the final style and the pending buffer are those of writing the
\* whole text in one call to a fresh renderer.
C1_ChunkInvariance ==
  /\ FlatText(ar.ops) = FlatText(OneCall.ops)
  /\ ar.style = OneCall.style
  /\ ar.pending_esc = OneCall.pending_esc

\* ---- C2 -----------------------------------------------------------------
\* C2: when the text written so far has no incomplete trailing escape
\* sequence, the sequence of runs (every _insert call with its text and
\* style, every line erase) is the sequence one write call on the whole text
\* produces.
C2_RunSequenceIdentity ==
  OneCall.pending_esc = <<>> => ar.ops = OneCall.ops

\* ---- C3 -----------------------------------------------------------------
\* C3: write never raises, whatever the input and the prior state.
C3_WriteNeverRaises == ar.exc = "none"

\* ---- C4 -----------------------------------------------------------------
\* The response command of the claim's policy table.
ClaimedResponse(cmd, opt) ==
  IF cmd = DO
    THEN (IF opt \in {TTYPE, NAWS, NEW_ENVIRON, MSSP, MSDP, GMCP, SGA}
            THEN WILL ELSE WONT)
  ELSE IF cmd = WILL
    THEN (IF opt \in {ECHO, SGA, MSSP, MSDP, GMCP} THEN DO ELSE DONT)
  ELSE IF cmd = DONT THEN WONT
  ELSE DONT

\* The socket writes made for event i, in order.
SendsOf(i) == SelectSeq(sends, LAMBDA m : m.ev = i)

\* Event i is still before its first write.
BeforeResponse(i) ==
  \E r \in Readers : cur[r] = i /\ pc[r] \in {"opt_lock", "opt_w1"}

\* C4: negotiation policy.  For every inbound DO / WILL / DONT / WONT with
\* any option, the first packet _on_option writes is IAC <resp> <option>
\* with resp as in the claim's table and the option of the request; it is
\* written as soon as the handler is past its first write, and it is the
\* only packet unless the request is DO TTYPE or DO NAWS.
C4_NegotiationPolicy ==
  \A i \in 1..Len(evlog) :
    LET cmd == evlog[i][1]
        opt == evlog[i][2]
    IN cmd \in {DO, WILL, DONT, WONT} =>
         /\ ~BeforeResponse(i) => SendsOf(i) # <<>>
         /\ SendsOf(i) # <<>> =>
              SendsOf(i)[1].bytes = <<IAC, ClaimedResponse(cmd, opt), opt>>
         /\ <<cmd, opt>> \notin {<<DO, TTYPE>>, <<DO, NAWS>>} =>
              Len(SendsOf(i)) <= 1

\* C4 witness: a DO ECHO has been refused on the wire and its handler has
\* returned.
C4_Witness ==
  \E i \in 1..Len(evlog) :
    /\ evlog[i] = <<DO, ECHO>>
    /\ \A r \in Readers : cur[r] # i
    /\ SendsOf(i) # <<>> /\ SendsOf(i)[1].ok

\* ---- C5 -----------------------------------------------------------------
\* Thread t waits for the send lock while holding it: it waits for ever.
SelfBlocked(t) == pc[t] \in {"sl_lock", "sn_lock", "opt_lock"} /\ lock = t

\* C5: once the handler of a DO NAWS whose WILL NAWS was written has
\* returned, or can go no further, the window-size flag is set and the
\* packet after IAC WILL NAWS is the frame IAC SB NAWS 0 120 0 40 IAC SE.
C5_NawsFrameSent ==
  \A i \in 1..Len(evlog) :
    ( /\ evlog[i] = <<DO, NAWS>>
      /\ SendsOf(i) # <<>> /\ SendsOf(i)[1].ok
      /\ \A r \in Readers : cur[r] = i => SelfBlocked(r) )
    => /\ naws_enabled
       /\ Len(SendsOf(i)) = 2
       /\ SendsOf(i)[2].bytes = <<IAC, SB, NAWS, 0, 120, 0, 40, IAC, SE>>

\* ---- C6 -----------------------------------------------------------------
\* C6: no deadlock on the send lock.  Whenever a thread waits for the send
\* lock, the thread holding it is not itself waiting for the lock, so the
\* lock is released and the waiting call returns.
C6_NoDeadlock ==
  \A t \in Threads :
    (pc[t] \in {"sl_lock", "sn_lock", "opt_lock"} /\ lock # 0)
      => pc[lock] \notin {"sl_lock", "sn_lock", "opt_lock"}

\* ---- C7 -----------------------------------------------------------------
\* The positions at which a thread is inside a stream write.
WritePcs == {"opt_w1", "opt_w2", "sl_write", "sn_write"}

\* C7: every stream write is made by the holder of the send lock, so at most
\* one thread is inside a write; and the writes answering one negotiation
\* event are contiguous in the order of the writes.
C7_WritesSerialised ==
  /\ \A t \in Threads : pc[t] \in WritePcs => lock = t
  /\ Cardinality({t \in Threads : pc[t] \in WritePcs}) <= 1
  /\ \A i, j \in 1..Len(sends) :
       (i < j /\ sends[i].ev # 0 /\ sends[i].ev = sends[j].ev)
         => \A k \in i..j : sends[k].ev = sends[i].ev

\* C7 witness: a send_line waits for the lock while the reader is between
\* the two packets of its answer to DO TTYPE.
C7_Witness ==
  \E a \in Apps : \E r \in Readers :
    /\ pc[a] = "sl_lock"
    /\ pc[r] = "opt_w2"
    /\ sends # <<>> /\ sends[Len(sends)].ev = cur[r]

\* ---- C8 -----------------------------------------------------------------
\* C8: for every reader, the disconnect notification is invoked at most once,
\* it has been invoked exactly once when the reader task has ended, and the
\* reader's connection is closed when it is invoked.
C8_NotifiedOnceAfterClose ==
  \A r \in Readers :
    /\ notified[r] <= 1
    /\ pc[r] = "done" => notified[r] = 1
    /\ notified[r] >= 1 => sock[r] = "closed"

\* ---- C9 -----------------------------------------------------------------
\* What one step of close() on thread t does.
CloseStepEffect(t) ==
  /\ (pc[t] = "cl_stop" /\ pc'[t] # "cl_stop") => stop'
  /\ (pc[t] = "cl_read" /\ pc'[t] # "cl_read" /\ tn = 0) =>
       /\ pc'[t] = AfterClose(t)
       /\ UNCHANGED <<tn, sock, stop, closes>>
  /\ (pc[t] = "cl_read" /\ pc'[t] # "cl_read" /\ tn # 0) =>
       /\ pc'[t] = "cl_tn"
       /\ ltn'[t] = tn
  /\ (pc[t] = "cl_tn" /\ pc'[t] # "cl_tn") =>
       /\ sock'[ltn[t]] = "closed"
       /\ pc'[t] = "cl_clear"
  /\ (pc[t] = "cl_clear" /\ pc'[t] # "cl_clear") =>
       /\ tn' = 0
       /\ pc'[t] = AfterClose(t)

\* The client holds no stream that a close() call has closed, except while
\* that call is about to clear it: a later close() finds no stream.
NoClosedStreamKept ==
  (tn # 0 /\ closes[tn] > 0) =>
    \E t \in Threads : pc[t] = "cl_clear" /\ ltn[t] = tn

\* C9: close is unconditional and idempotent.  In any state it sets the stop
\* signal, closes the stream the client holds if there is one and leaves the
\* client without a stream; on a client without a stream it closes nothing
\* and changes nothing; and no stream a close() has closed stays with the
\* client, so a second close() closes nothing again.  close() has no
\* raising exit.
C9_CloseIdempotent ==
  /\ []NoClosedStreamKept
  /\ [][\A t \in Threads : CloseStepEffect(t)]_vars

\* C9 witness: a second close() runs on a client that a first close() of an
\* application thread left closed while the reader had not yet noticed: the
\* second call has set the stop signal again and finds no stream; stream 1
\* was closed once.
C9_Witness ==
  \E a \in Apps :
    /\ pc[a] = "cl_read"
    /\ stop /\ tn = 0
    /\ sock[1] = "closed" /\ closes[1] = 1
    /\ pc[1] \in {"loop", "chk", "read"}

\* ---- C10 ----------------------------------------------------------------
\* C10: once the stop signal is set while a reader task is running, that
\* reader task eventually ends.
C10_ReaderEndsAfterClose ==
  \A r \in Readers :
    (stop /\ pc[r] \notin {"unstarted", "done"}) ~> (pc[r] = "done")


\* ---- C11 ----------------------------------------------------------------
\* v limited to lo..hi.
ClampTo(lo, hi, v) == IF v < lo THEN lo ELSE IF v > hi THEN hi ELSE v

\* C11: when send_naws(cols, rows) has written on the stream, what it wrote
\* is the 9 bytes IAC SB NAWS 0 c 0 r IAC SE with c = cols limited to 20..255
\* and r = rows limited to 5..255; the high bytes are 0.
C11_NawsFrameClamped ==
  \A t \in Threads :
    pc[t] = "sn_unlock" =>
      /\ sends # <<>>
      /\ sends[Len(sends)].by = t
      /\ sends[Len(sends)].bytes =
           <<255, 250, 31, 0, ClampTo(20, 255, arg[t][1]),
             0, ClampTo(5, 255, arg[t][2]), 255, 240>>

\* C11 witness: send_naws(300, 3) has put its frame on the open stream.
C11_Witness ==
  \E a \in Apps :
    /\ pc[a] = "sn_unlock"
    /\ arg[a] = <<300, 3>>
    /\ sends[Len(sends)].ok
    /\ sends[Len(sends)].bytes = <<255, 250, 31, 0, 255, 0, 5, 255, 240>>

\* ---- C12 ----------------------------------------------------------------
\* C12: a window-size frame that a send_naws call of the application puts on
\* the stream is sent only when the window-size capability is active.
C12_NawsOnlyWhenEnabled ==
  \A i \in 1..Len(sends) :
    (sends[i].by \in Apps /\ sends[i].bytes[1] = IAC /\ sends[i].ok)
      => naws_enabled


\* ---- C13 ----------------------------------------------------------------
\* What the claim says is left of the buffer from position i on: a byte
\* other than IAC is payload; IAC with DO, DONT, WILL or WONT takes three
\* bytes, IAC SB takes everything up to the first IAC SE after it or, when
\* there is none, up to the end of the buffer, IAC with any other command
\* takes two bytes.
RECURSIVE ClaimedPayload(_, _)
ClaimedPayload(buf, i) ==
  IF i > Len(buf) THEN <<>>
  ELSE IF buf[i] # IAC THEN <<buf[i]>> \o ClaimedPayload(buf, i + 1)
  ELSE IF i = Len(buf) THEN <<>>
  ELSE IF buf[i + 1] \in {DO, DONT, WILL, WONT} THEN ClaimedPayload(buf, i + 3)
  ELSE IF buf[i + 1] = SB THEN
    LET ends == {j \in (i + 2)..(Len(buf) - 1) :
                   buf[j] = IAC /\ buf[j + 1] = SE}
    IN IF ends = {} THEN <<>>
       ELSE ClaimedPayload(buf, (CHOOSE j \in ends : \A k \in ends : j <= k) + 2)
  ELSE ClaimedPayload(buf, i + 2)

\* C13: _strip_iac returns exactly the payload bytes of its buffer, in their
\* order: every IAC-prefixed sequence is removed, an unterminated
\* sub-negotiation up to the end of the buffer.
C13_StripIacLeavesPayload ==
  call.fn = "_strip_iac" => call.out = ClaimedPayload(call.buf, 1)


\* ---- C14 ----------------------------------------------------------------
\* The position just after the control sequence whose parameters start at
\* position j of s (digits and ";" up to the mode character), or 0 when s
\* ends before the mode character.
RECURSIVE CsiEnd(_, _)
CsiEnd(s, j) ==
  IF j > Len(s) THEN 0
  ELSE IF IsDigit(s[j]) \/ s[j] = ";" THEN CsiEnd(s, j + 1)
  ELSE j + 1

\* A widget operation without its style.
Shape(o) ==
  IF o.op = "erase" THEN [op |-> "erase", text |-> <<>>]
  ELSE [op |-> "insert", text |-> o.text]

ShapesOf(ops) == [k \in 1..Len(ops) |-> Shape(ops[k])]

\* The claimed handling of a literal run that ends: nothing for an empty
\* run; otherwise one insert, preceded by the one erase when the flag is
\* set, and the flag is cleared.
ClaimedEmit(out, run, flag) ==
  IF run = <<>> THEN [ops |-> out, flag |-> flag]
  ELSE [ops |-> out \o
                (IF flag THEN <<[op |-> "erase", text |-> <<>>]>> ELSE <<>>) \o
                <<[op |-> "insert", text |-> run]>>,
        flag |-> FALSE]

\* The claimed operations and final erase-line flag for the text s from
\* position i on: a carriage return ends the run and sets the flag, a
\* complete control sequence ends the run, an incomplete one waits.
RECURSIVE ClaimedCr(_, _, _, _, _)
ClaimedCr(s, i, out, run, flag) ==
  IF i > Len(s) THEN ClaimedEmit(out, run, flag)
  ELSE IF s[i] = CR THEN
    ClaimedCr(s, i + 1, ClaimedEmit(out, run, flag).ops, <<>>, TRUE)
  ELSE IF s[i] = ESC /\ i = Len(s) THEN ClaimedEmit(out, run, flag)
  ELSE IF s[i] = ESC /\ s[i + 1] = "[" THEN
    LET e == ClaimedEmit(out, run, flag) IN
    IF CsiEnd(s, i + 2) = 0 THEN e
    ELSE ClaimedCr(s, CsiEnd(s, i + 2), e.ops, <<>>, e.flag)
  ELSE ClaimedCr(s, i + 1, out, Append(run, s[i]), flag)

\* The text and erase marks of a sequence of styleless operations.
RECURSIVE FlatShapes(_)
FlatShapes(ops) ==
  IF ops = <<>> THEN <<>>
  ELSE IF Head(ops).op = "erase" THEN <<"<erase>">> \o FlatShapes(Tail(ops))
  ELSE Head(ops).text \o FlatShapes(Tail(ops))

\* C14: carriage-return handling in write.  A carriage return flushes the
\* literal run as one insert and sets the erase-line flag without erasing;
\* the erase happens exactly once, immediately before the next inserted run
\* (in the same or a later write call, after one or several carriage
\* returns); a carriage return followed by no text causes no erase.
C14_CarriageReturn ==
  LET ref == ClaimedCr(written, 1, <<>>, <<>>, FALSE) IN
  /\ ar.carriage_return = ref.flag
  /\ FlatText(ar.ops) = FlatShapes(ref.ops)
  /\ nwrites = 1 => ShapesOf(ar.ops) = ref.ops
  /\ \A k \in 1..Len(ar.ops) :
       ar.ops[k].op = "erase" =>
         /\ k < Len(ar.ops)
         /\ ar.ops[k + 1].op = "insert"
         /\ \E j \in 1..Len(written) : written[j] = CR

\* Text, two carriage returns, and the next text in a later write call:
\* one erase, just before that text.
C14_Witness ==
  /\ written = <<"a", CR, CR, "a">>
  /\ nwrites = 3
  /\ ~ar.carriage_return
  /\ ShapesOf(ar.ops) =
       <<[op |-> "insert", text |-> <<"a">>],
         [op |-> "erase", text |-> <<>>],
         [op |-> "insert", text |-> <<"a">>]>>


\* ---- C15 ----------------------------------------------------------------
\* The index of the last carriage return of a text, 0 when it has none.
LastCr(text) ==
  IF \E k \in 1..Len(text) : text[k] = CR
    THEN CHOOSE k \in 1..Len(text) :
           text[k] = CR /\ \A j \in (k + 1)..Len(text) : text[j] # CR
    ELSE 0

RECURSIVE StyledText(_)
StyledText(ops) ==
  IF ops = <<>> THEN <<>>
  ELSE IF Head(ops).op = "erase" THEN StyledText(Tail(ops))
  ELSE [k \in 1..Len(Head(ops).text) |->
          [ch |-> Head(ops).text[k], style |-> Head(ops).style]]
       \o StyledText(Tail(ops))

Styled(text, style) == [k \in 1..Len(text) |-> [ch |-> text[k], style |-> style]]

\* C16: once the whole banner has reached the renderer, in one chunk or in
\* several, the renderer has emitted "Welcome" in green and then
\* " to MockMUD!\n>" in the default style, and the display shows the line
\* "Welcome to MockMUD!" followed by a new line holding ">".
C16_BannerShown ==
  written = Banner =>
    /\ StyledText(ar.ops) =
         Styled(SubSeq(Banner, 6, 12), [DefaultStyle EXCEPT !.fg = Named(2)])
         \o Styled(SubSeq(Banner, 17, 28) \o <<NL, ">">>, DefaultStyle)
    /\ Display(ar.ops) =
         SubSeq(Banner, 6, 12) \o SubSeq(Banner, 17, 28) \o <<NL, ">">>


\* ---- C17 ----------------------------------------------------------------
\* The characters of the text s from position i on that belong to no
\* complete control sequence (ESC "[", digits and ";", one mode character)
\* and may therefore be inserted; a carriage return is never inserted, and
\* an ESC or an unfinished sequence at the end is still waiting.
RECURSIVE LiteralText(_, _)
LiteralText(s, i) ==
  IF i > Len(s) THEN <<>>
  ELSE IF s[i] = CR THEN LiteralText(s, i + 1)
  ELSE IF s[i] = ESC /\ i = Len(s) THEN <<>>
  ELSE IF s[i] = ESC /\ s[i + 1] = "[" THEN
    IF CsiEnd(s, i + 2) = 0 THEN <<>> ELSE LiteralText(s, CsiEnd(s, i + 2))
  ELSE <<s[i]>> \o LiteralText(s, i + 1)

\* The inserted text of a sequence of operations.
RECURSIVE InsertedText(_)
InsertedText(ops) ==
  IF ops = <<>> THEN <<>>
  ELSE IF Head(ops).op = "erase" THEN InsertedText(Tail(ops))
  ELSE Head(ops).text \o InsertedText(Tail(ops))

\* a can be obtained from b by leaving characters out.
RECURSIVE IsSubseq(_, _)
IsSubseq(a, b) ==
  IF a = <<>> THEN TRUE
  ELSE IF b = <<>> THEN FALSE
  ELSE IF Head(a) = Head(b) THEN IsSubseq(Tail(a), Tail(b))
  ELSE IsSubseq(a, Tail(b))

\* C17: no character of a complete control sequence, whatever its mode
\* character, appears in inserted text, however the text was split into
\* write calls: what has been inserted consists of characters that lie
\* outside every complete control sequence of the text written, in their
\* order.
C17_NoControlCharInserted ==
  IsSubseq(InsertedText(ar.ops), LiteralText(written, 1))


\* ---- C18 ----------------------------------------------------------------
\* The claimed effect of one basic parameter p on a style.
ClaimedBasic(st, p) ==
  IF p = NoneP \/ p = 0 THEN DefaultStyle
  ELSE IF p = 1 THEN [st EXCEPT !.bold = TRUE]
  ELSE IF p = 4 THEN [st EXCEPT !.underline = TRUE]
  ELSE IF p = 7 THEN [st EXCEPT !.inverse = TRUE]
  ELSE IF p = 22 THEN [st EXCEPT !.bold = FALSE]
  ELSE IF p = 24 THEN [st EXCEPT !.underline = FALSE]
  ELSE IF p = 27 THEN [st EXCEPT !.inverse = FALSE]
  ELSE IF p \in 30..37 THEN [st EXCEPT !.fg = Named(p - 30)]
  ELSE IF p \in 90..97 THEN [st EXCEPT !.fg = Named(p - 90 + 8)]
  ELSE IF p \in 40..47 THEN [st EXCEPT !.bg = Named(p - 40)]
  ELSE IF p \in 100..107 THEN [st EXCEPT !.bg = Named(p - 100 + 8)]
  ELSE IF p = 39 THEN [st EXCEPT !.fg = NoColor]
  ELSE IF p = 49 THEN [st EXCEPT !.bg = NoColor]
  ELSE st

\* The parameters applied left to right; an empty list is a reset.
RECURSIVE ClaimedFold(_, _)
ClaimedFold(st, ps) ==
  IF ps = <<>> THEN st
  ELSE ClaimedFold(ClaimedBasic(st, Head(ps)), Tail(ps))

ClaimedSgr(st, ps) == IF ps = <<>> THEN DefaultStyle ELSE ClaimedFold(st, ps)

\* C18: the basic SGR parameters of one sequence are applied left to right,
\* each with the effect the table above gives it and no other; an empty
\* parameter and an empty list reset the style.
C18_SgrBasic ==
  (call.fn = "_apply_sgr" /\ \A k \in 1..Len(call.params) :
                               call.params[k] \notin {38, 48})
    => /\ call.exc = "none"
       /\ call.out = ClaimedSgr(call.style, call.params)

\* Bold off and white foreground applied to a style with everything set.
C18_Witness ==
  /\ call.fn = "_apply_sgr"
  /\ call.style = FullStyle
  /\ call.params = <<22, 37>>
  /\ call.out = [FullStyle EXCEPT !.bold = FALSE, !.fg = Named(7)]


\* ---- C19 ----------------------------------------------------------------
\* The claimed effect of the parameters from position i on, with extended
\* colour selections: 38/48, 5, n selects the indexed colour n clamped to
\* 0..255 and takes three parameters; 38/48, 2, r, g, b selects the true
\* colour with each channel clamped and takes five; the parameters after a
\* selection are ordinary ones.
RECURSIVE ClaimedExt(_, _, _)
ClaimedExt(st, ps, i) ==
  IF i > Len(ps) THEN st
  ELSE IF ps[i] \in {38, 48} /\ i + 2 <= Len(ps) /\ ps[i + 1] = 5 THEN
    LET col == Xterm(ClampTo(0, 255, ps[i + 2])) IN
    ClaimedExt(IF ps[i] = 38 THEN [st EXCEPT !.fg = col]
               ELSE [st EXCEPT !.bg = col], ps, i + 3)
  ELSE IF ps[i] \in {38, 48} /\ i + 4 <= Len(ps) /\ ps[i + 1] = 2 THEN
    LET col == Rgb(ClampTo(0, 255, ps[i + 2]), ClampTo(0, 255, ps[i + 3]),
                   ClampTo(0, 255, ps[i + 4])) IN
    ClaimedExt(IF ps[i] = 38 THEN [st EXCEPT !.fg = col]
               ELSE [st EXCEPT !.bg = col], ps, i + 5)
  ELSE ClaimedExt(ClaimedBasic(st, ps[i]), ps, i + 1)

\* What is seen of a style: the colours and underline of its tag, and the
\* flags.
Look(st) ==
  [tag |-> TagOf(st), bold |-> st.bold, underline |-> st.underline,
   inverse |-> st.inverse]

\* C19: an extended colour selection sets the foreground (38) or background
\* (48) to the indexed colour n or the true colour r, g, b, clamped to
\* 0..255, and consumes exactly its three or five parameters: the
\* parameters before and after it act as ordinary parameters and the
\* consumed ones do not.
C19_SgrExtendedColour ==
  (call.fn = "_apply_sgr" /\ call.params \in ExtLists)
    => /\ call.exc = "none"
       /\ Look(call.out) = Look(ClaimedExt(call.style, call.params, 1))

\* Bold, indexed foreground 300 and underline in one sequence: the colour
\* is that of index 255, and bold and underline are on.
C19_Witness ==
  /\ call.fn = "_apply_sgr"
  /\ call.style = DefaultStyle
  /\ call.params = <<1, 38, 5, 300, 4>>
  /\ call.out.bold /\ call.out.underline /\ ~call.out.inverse
  /\ TagOf(call.out).foreground = HexColor(238, 238, 238)


\* ---- C20 ----------------------------------------------------------------
\* C20: a sequence that is a 38 or 48 selection of an unrecognized shape
\* raises nothing and leaves every attribute of the style as it was.
C20_MalformedSelectionIgnored ==
  (call.fn = "_apply_sgr" /\ call.params \in BadExtLists)
    => /\ call.exc = "none"
       /\ call.out = call.style


\* ---- C21 ----------------------------------------------------------------
\* The claimed channels of the indexed colour n, for n in 16..255.
ClaimedChannel(v) == IF v = 0 THEN 0 ELSE 55 + v * 40

ClaimedIndexed(n) ==
  IF n <= 231
    THEN <<ClaimedChannel(((n - 16) \div 36) % 6),
           ClaimedChannel(((n - 16) \div 6) % 6),
           ClaimedChannel((n - 16) % 6)>>
    ELSE <<8 + (n - 232) * 10, 8 + (n - 232) * 10, 8 + (n - 232) * 10>>

\* The colour string of a triple of channels.
TripleColor(t) == HexColor(t[1], t[2], t[3])

\* C21: the colour table.  An indexed colour n in 0..15 is the named
\* palette entry n, in 16..231 the 6x6x6 cube entry, in 232..255 the gray
\* step 8 + (n - 232) * 10; index 16 is named black, 231 is ff,ff,ff and 255
\* the last gray step; a true colour is exactly its triple; named indices
\* and channels out of range are clamped to 0..15 and 0..255.
C21_ColourTable ==
  call.fn = "color_from_ansi" =>
    LET code == call.code IN
    /\ (code.k = "xterm" /\ code.a \in 0..15)
         => call.out = Palette[code.a + 1]
    /\ (code.k = "xterm" /\ code.a \in 16..255)
         => call.out = TripleColor(ClaimedIndexed(code.a))
    /\ code = Xterm(16) => call.out = Palette[1]
    /\ code = Xterm(231) => call.out = <<"#", "f", "f", "f", "f", "f", "f">>
    /\ code = Xterm(255) => call.out = <<"#", "e", "e", "e", "e", "e", "e">>
    /\ (code.k = "rgb" /\ {code.a, code.b, code.c} \subseteq 0..255)
         => call.out = HexColor(code.a, code.b, code.c)
    /\ code.k = "rgb"
         => call.out = HexColor(ClampTo(0, 255, code.a), ClampTo(0, 255, code.b),
                                ClampTo(0, 255, code.c))
    /\ code = Rgb(10, 20, 30) => call.out = <<"#", "0", "a", "1", "4", "1", "e">>
    /\ code.k = "named" => call.out = Palette[ClampTo(0, 15, code.a) + 1]

\* The cube entry 196 (r = 5, g = 0, b = 0) resolves to ff,00,00.
C21_Witness ==
  /\ call.fn = "color_from_ansi"
  /\ call.code = Xterm(196)
  /\ call.out = <<"#", "f", "f", "0", "0", "0", "0">>


\* ---- C22 ----------------------------------------------------------------
\* The claimed foreground colour of a style: the bright variant for a named
\* colour 0..7 in bold, otherwise the colour as it is.
ClaimedForeground(st) ==
  IF st.fg = NoColor THEN HexColor(221, 221, 221)
  ELSE IF st.fg.k = "named" /\ st.fg.a \in 0..7 /\ st.bold
    THEN Palette[st.fg.a + 8 + 1]
  ELSE ColorFromAnsi(st.fg)

ClaimedBackground(st) ==
  IF st.bg = NoColor THEN HexColor(17, 17, 17) ELSE ColorFromAnsi(st.bg)

\* C22: when a style is resolved for display, bold gives a named foreground
\* 0..7 its bright variant (index + 8) and changes no other foreground and
\* no background.
C22_BoldSelectsBright ==
  call.fn = "_get_colors" =>
    LET st == call.style IN
    call.out = IF st.inverse
                 THEN <<ClaimedBackground(st), ClaimedForeground(st)>>
                 ELSE <<ClaimedForeground(st), ClaimedBackground(st)>>


\* ---- C23 ----------------------------------------------------------------
\* C23: a connect that fails raises to its caller in the same step and
\* leaves nothing behind: the client holds no stream, no stream and no
\* reader thread has been created or moved, no disconnect notification is
\* made, and the caller is free to connect again.
C23_ConnectFailureLeavesNothing ==
  [][(pc[Owner] = "cn_open" /\ pc'[Owner] = "idle")
       => /\ call'.fn = "connect" /\ call'.exc = "OSError"
          /\ tn' = 0
          /\ nconn' = nconn /\ sock' = sock /\ closes' = closes
          /\ \A r \in Readers : pc'[r] = pc[r]
          /\ notified' = notified
          /\ stop' = stop /\ lock' = lock]_vars

\* A connect has failed and a later connect on the same client has
\* succeeded: its reader is polling the first stream created.
C23_Witness ==
  /\ call = [fn |-> "connect", exc |-> "OSError"]
  /\ tn = 1 /\ nconn = 1 /\ sock[1] = "open"
  /\ pc[Owner] = "idle"
  /\ pc[1] \in {"loop", "chk", "read"}


\* ---- C24 ----------------------------------------------------------------
\* C24: however the reads split the payload, the concatenation of the texts
\* passed to on_text, in order, is the best-effort UTF-8 decoding of the
\* whole payload received.
C24_TextIndependentOfSplit ==
  call.fn = "_reader_loop" =>
    call.delivered = Utf8Ignore(call.received, 1)


\* ---- C25 ----------------------------------------------------------------
\* The positions in the log of writes of the writes made for event i.
WritesAt(i) == {k \in 1..Len(sends) : sends[k].ev = i}

\* C25: for an inbound DO TTYPE the handler writes IAC WILL TTYPE and then,
\* as the very next write on the same stream, IAC SB TTYPE 0 "ANSI" IAC SE;
\* it writes nothing else, and once it has returned after a successful
\* first write both packets have been written.
C25_TtypeAnswer ==
  \A i \in 1..Len(evlog) :
    evlog[i] = <<DO, TTYPE>> =>
      LET S == SendsOf(i) IN
      /\ Len(S) <= 2
      /\ Len(S) >= 1 => S[1].bytes = <<255, 251, 24>>
      /\ Len(S) = 2 =>
           /\ S[1].ok
           /\ S[2].bytes = <<255, 250, 24, 0, 65, 78, 83, 73, 255, 240>>
           /\ S[2].s = S[1].s
           /\ \E k \in 1..Len(sends) : WritesAt(i) = {k, k + 1}
      /\ (S # <<>> /\ S[1].ok /\ \A r \in Readers : cur[r] # i)
           => Len(S) = 2

\* A line of the application is on the wire, then both packets of the
\* answer to DO TTYPE, and the handler has returned.
C25_Witness ==
  /\ Len(sends) = 3
  /\ sends[1].by \in Apps /\ sends[1].ok
  /\ sends[2].bytes = <<255, 251, 24>> /\ sends[2].ok
  /\ sends[3].bytes = <<255, 250, 24, 0, 65, 78, 83, 73, 255, 240>>
  /\ sends[3].ok
  /\ \A r \in Readers : cur[r] = 0


\* ---- C26 ----------------------------------------------------------------
\* The steps of send_line in thread a, as the claim describes them: with no
\* stream it returns at once; its one write appends one record with the
\* UTF-8 bytes of the line and CR LF, made while a holds the lock; after
\* the write, failed or not, it releases the lock and returns.  No step
\* changes the client's stream, stop signal, window-size flag or sockets,
\* or writes anything else.
SendLineStepClaimed(a) ==
  /\ <<tn, stop, naws_enabled, sock, closes, notified>>' =
       <<tn, stop, naws_enabled, sock, closes, notified>>
  /\ pc[a] = "sl_read" =>
       /\ sends' = sends /\ lock' = lock
       /\ pc'[a] = IF tn = 0 THEN "idle" ELSE "sl_lock"
  /\ pc[a] = "sl_lock" => sends' = sends /\ lock = 0 /\ lock' = a
  /\ pc[a] = "sl_write" =>
       /\ lock = a /\ lock' = a
       /\ Len(sends') = Len(sends) + 1
       /\ SubSeq(sends', 1, Len(sends)) = sends
       /\ sends'[Len(sends')].by = a
       /\ sends'[Len(sends')].bytes = <<99, 97, 102, 195, 169, 13, 10>>
       /\ sock[sends'[Len(sends')].s] # "open" => ~sends'[Len(sends')].ok
       /\ pc'[a] = "sl_unlock"
  /\ pc[a] = "sl_unlock" =>
       /\ lock = a /\ lock' = 0
       /\ sends' = sends
       /\ pc'[a] = "idle"

\* C26: send_line writes the UTF-8 bytes of its text followed by CR LF as
\* one write under the send lock; when the client is not connected or
\* closed, or the write fails, it writes nothing further, raises nothing,
\* releases the lock and leaves the client state unchanged.
C26_SendLine ==
  [][\A a \in Apps :
       (pc[a] \in {"sl_read", "sl_lock", "sl_write", "sl_unlock"}
          /\ pc'[a] # pc[a])
         => SendLineStepClaimed(a)]_vars

\* A send_line whose write failed has returned: the lock is free, the
\* stream is still the client's and still open.
C26_Witness ==
  \E a \in Apps :
    /\ pc[a] = "idle" /\ lock = 0
    /\ Len(sends) = 1
    /\ sends[1].by = a /\ ~sends[1].ok
    /\ sends[1].bytes = <<99, 97, 102, 195, 169, 13, 10>>
    /\ tn = sends[1].s /\ sock[tn] = "open"


\* ---- C27 ----------------------------------------------------------------
\* What a step of reader r leaves alone when it does not touch the
\* connection.
ConnectionKept ==
  <<tn, sock, stop, notified, closes>>' = <<tn, sock, stop, notified, closes>>

\* C27: when a write of a negotiation response fails, the handler does
\* nothing more for the event: it goes to the end of its with block, where
\* it releases the send lock and returns into the reader loop, which goes
\* on polling; neither step closes the connection or makes the disconnect
\* notification.
C27_NegotiationFailureSwallowed ==
  [][\A r \in Readers :
       /\ (pc[r] \in {"opt_w1", "opt_w2"} /\ pc'[r] # pc[r]
             /\ ~sends'[Len(sends')].ok)
            => /\ pc'[r] = "opt_unlock"
               /\ lock = r /\ lock' = r
               /\ Len(sends') = Len(sends) + 1
               /\ ConnectionKept
       /\ (pc[r] = "opt_unlock" /\ pc'[r] # pc[r])
            => /\ lock = r /\ lock' = 0
               /\ pc'[r] = "loop"
               /\ sends' = sends
               /\ ConnectionKept]_vars

\* The only negotiation write has failed, and the reader is back at
\* read_eager on its open stream with the lock free and no notification
\* made.
C27_Witness ==
  \E r \in Readers :
    /\ Len(sends) = 1 /\ sends[1].by = r /\ ~sends[1].ok
    /\ pc[r] = "read" /\ cur[r] = 0
    /\ lock = 0
    /\ tn = r /\ sock[r] = "open" /\ ~stop
    /\ notified[r] = 0


\* ---- C28 ----------------------------------------------------------------
\* Reader r is in its polling loop.
Polling(r) == pc[r] \in {"loop", "chk", "read"}

\* C28: one reader task per connection.  At most one reader is polling at
\* any time; a reader that is about to read reads the stream it was started
\* for, and a reader that is about to close a stream on its exit closes the
\* stream it was started for.
C28_OneReaderPerConnection ==
  /\ Cardinality({r \in Readers : Polling(r)}) <= 1
  /\ \A r \in Readers : (pc[r] = "read" /\ tn # 0) => tn = r
  /\ \A r \in Readers : pc[r] = "cl_tn" => ltn[r] = r


\* ---- C29 ----------------------------------------------------------------
\* The text passed to the last write call.
LastChunk == SubSeq(written', Len(written) + 1, Len(written'))

\* The input the last write call scanned: the pending buffer it found,
\* followed by its argument.
LastInput == ar.pending_esc \o LastChunk

\* The widget operations of the last write call.
LastOps == SubSeq(ar'.ops, Len(ar.ops) + 1, Len(ar'.ops))

\* The claimed unconsumed tail of an input scanned from position i: from
\* the ESC that ends the input, or from the ESC "[" after which the input
\* ends before a mode character; empty when the input ends elsewhere.
RECURSIVE UnconsumedTail(_, _)
UnconsumedTail(s, i) ==
  IF i > Len(s) THEN <<>>
  ELSE IF s[i] # ESC THEN UnconsumedTail(s, i + 1)
  ELSE IF i = Len(s) THEN SubSeq(s, i, Len(s))
  ELSE IF s[i + 1] # "[" THEN UnconsumedTail(s, i + 1)
  ELSE IF CsiEnd(s, i + 2) = 0 THEN SubSeq(s, i, Len(s))
  ELSE UnconsumedTail(s, CsiEnd(s, i + 2))

\* A lone ESC, or ESC "[" followed only by digits and ";".
PendingForm(p) ==
  /\ p # <<>>
  /\ p[1] = ESC
  /\ Len(p) > 1 => p[2] = "["
  /\ \A k \in 3..Len(p) : IsDigit(p[k]) \/ p[k] = ";"

\* C29: after every write call the pending escape buffer is empty or is
\* exactly the unconsumed tail of the call's input, which starts at an ESC
\* (a lone ESC, or ESC "[" followed only by digits and ";") and none of
\* whose characters the call inserted; it is non-empty only when the input
\* ended before a mode character; the call's input is the buffer the call
\* found followed by its argument, so a call that returns leaves the tail
\* of that input in the buffer and nothing else.
C29_PendingEscape ==
  [][nwrites' # nwrites =>
       LET p == ar'.pending_esc
           n == Len(LastInput)
       IN /\ p # <<>> =>
               /\ PendingForm(p)
               /\ p = SubSeq(LastInput, n - Len(p) + 1, n)
               /\ p = UnconsumedTail(LastInput, 1)
          /\ IsSubseq(InsertedText(LastOps),
                      SubSeq(LastInput, 1, n - Len(p)))
          /\ ar'.exc = "none" => p = UnconsumedTail(LastInput, 1)]_vars

\* Witness: after "m" ESC and then "[" "1" the buffer holds ESC "[" "1": the
\* ESC kept by the first call was prepended to the input of the second, and
\* only the "m" has been inserted.
C29_Witness ==
  /\ nwrites = 2
  /\ written = <<"m", ESC, "[", "1">>
  /\ ar.pending_esc = <<ESC, "[", "1">>
  /\ InsertedText(ar.ops) = <<"m">>


\* ---- C30 ----------------------------------------------------------------
\* The input, scanned from position i, holds a complete control sequence
\* whose mode character is "m".
RECURSIVE HasSgr(_, _)
HasSgr(s, i) ==
  IF i >= Len(s) THEN FALSE
  ELSE IF s[i] # ESC \/ s[i + 1] # "[" THEN HasSgr(s, i + 1)
  ELSE IF CsiEnd(s, i + 2) = 0 THEN FALSE
  ELSE IF s[CsiEnd(s, i + 2) - 1] = "m" THEN TRUE
  ELSE HasSgr(s, CsiEnd(s, i + 2))

\* C30: the current style (fg, bg, bold, underline, inverse) changes only
\* when a complete control sequence with mode "m" is processed: a write
\* call whose input holds no such sequence, only ordinary characters, ESC
\* not followed by "[", carriage returns and control sequences of other
\* modes, leaves the style as it found it.
C30_StyleChangesOnlyOnSgr ==
  [][(nwrites' # nwrites /\ ar'.style # ar.style)
       => HasSgr(LastInput, 1)]_vars

\* Witness: bold has been set by ESC "[" "1" "m", then a carriage return,
\* an ESC not followed by "[", a letter or a sequence of another mode has
\* been processed in a later call, and the style is still bold.
C30_Witness ==
  /\ nwrites = 2
  /\ Len(written) = 5
  /\ SubSeq(written, 1, 4) = <<ESC, "[", "1", "m">>
  /\ ar.pending_esc = <<>>
  /\ ar.style = [DefaultStyle EXCEPT !.bold = TRUE]


\* ---- C31 ----------------------------------------------------------------
\* Reader r is handling an inbound DO window-size and its WILL response
\* has been written.
WillNawsWritten(r) ==
  /\ cur[r] # 0
  /\ CurCmd(r) = DO /\ CurOpt(r) = NAWS
  /\ \E k \in 1..Len(sends) :
       sends[k] = SendRec(telnet[r], <<IAC, WILL, NAWS>>, r, cur[r], TRUE)

\* C31: the window-size flag starts inactive, becomes active only in the
\* handling of an inbound DO window-size after the WILL response was
\* written, and once active stays active through every later step: an
\* inbound DONT window-size, close() and a reconnect included.
C31_FlagMonotone ==
  /\ ~naws_enabled
  /\ [][/\ naws_enabled => naws_enabled'
        /\ (~naws_enabled /\ naws_enabled') =>
             \E r \in Readers : pc[r] = "opt_naws" /\ WillNawsWritten(r)]_vars

\* Witness: the flag was set on the first stream, the client was closed and
\* connected again, the second stream's reader has answered an inbound DONT
\* window-size with WONT, and the flag is still active.
C31_Witness ==
  /\ naws_enabled
  /\ tn = 2
  /\ closes[1] > 0
  /\ evlog = <<<<DO, NAWS>>, <<DONT, NAWS>>>>
  /\ \E k \in 1..Len(sends) :
       sends[k] = SendRec(2, <<IAC, WONT, NAWS>>, 2, 2, TRUE)


\* ---- C32 ----------------------------------------------------------------
\* C32: a connect that finds the client holding an open stream raises the
\* "Already connected" RuntimeError at its first test: it opens nothing and
\* leaves the stream the client holds, the reader threads and the stop
\* signal as they were.
C32_AlreadyConnected ==
  [][(/\ pc[Owner] = "cn_check"
      /\ pc'[Owner] # "cn_check"
      /\ tn # 0
      /\ sock[tn] = "open")
       => /\ call' = [fn |-> "connect", exc |-> "RuntimeError"]
          /\ pc'[Owner] = "idle"
          /\ nconn' = nconn
          /\ sock' = sock
          /\ tn' = tn
          /\ stop' = stop
          /\ \A r \in Readers : pc'[r] = pc[r]]_vars

\* Witness: connect has raised on a client whose first stream is open and
\* still held, its reader polling, the stop signal clear, and no second
\* stream opened.
C32_Witness ==
  /\ call = [fn |-> "connect", exc |-> "RuntimeError"]
  /\ pc[Owner] = "idle"
  /\ tn = 1
  /\ sock[1] = "open"
  /\ Polling(1)
  /\ ~stop
  /\ nconn = 1


\* ---- C33 ----------------------------------------------------------------
\* C33: for every buffer the output of _strip_iac holds no byte equal to
\* IAC and is a subsequence of the buffer; stripping the output again gives
\* the output; and the function terminates, its loop making at most one
\* iteration per byte of the buffer, also when the buffer ends in a lone
\* IAC or in IAC and a command byte without its option.
C33_StripIacOutput ==
  call.fn = "_strip_iac" =>
    /\ \A k \in 1..Len(call.out) : call.out[k] # IAC
    /\ IsSubseq(call.out, call.buf)
    /\ StripIac(call.out) = call.out
    /\ StripIters(call.buf, 1) <= Len(call.buf)

\* Witness: a buffer that ends in IAC DO without the option byte has been
\* stripped to the letter before it.
C33_Witness ==
  /\ call.fn = "_strip_iac"
  /\ call.buf = <<65, IAC, DO>>
  /\ call.out = <<65>>

====
